---- MODULE Spec2Model ----
(***************************************************************************)
(* The memory store of scripts/memory.py: a table of records keyed by a    *)
(* normalised key, a full-text index kept by triggers, and the service     *)
(* operations (set, get, forget, purge_expired, reindex) run by concurrent *)
(* tasks that interleave at their storage calls.                           *)
(*                                                                         *)
(* A text is a sequence of characters; a character is a one-letter string, *)
(* or a name for a character outside ASCII: "e_acute" (U+00E9), "acute"    *)
(* (U+0301, a combining mark) and "eszett" (U+00DF).                       *)
(***************************************************************************)
EXTENDS Integers, Sequences, FiniteSets, TLC

\* ------------------------------------------------------------ constants

\* memory.py:17
CANDIDATE_CHECK_LIMIT == 5
\* memory.py:15
SEARCH_LIMIT_MAX == 50
\* memory.py:14
EXPIRATION_MAX_DAYS == 3650

\* Python's None where a text is expected (no text is this sequence).
None == <<"None">>

\* ------------------------------------------------------------ characters

LowerLetters ==
    {"a", "b", "c", "d", "e", "f", "g", "h", "i", "j", "k", "l", "m",
     "n", "o", "p", "q", "r", "s", "t", "u", "v", "w", "x", "y", "z"}

Digits == {"0", "1", "2", "3", "4", "5", "6", "7", "8", "9"}

\* str.lower() on the capitals the inputs use.
UpperToLower ==
    ("A" :> "a") @@ ("B" :> "b") @@ ("C" :> "c") @@ ("D" :> "d") @@
    ("E" :> "e") @@ ("P" :> "p") @@ ("V" :> "v") @@ ("X" :> "x")

Lower(c) == IF c \in DOMAIN UpperToLower THEN UpperToLower[c] ELSE c

LowerStr(s) == [i \in 1..Len(s) |-> Lower(s[i])]

\* unicodedata.normalize("NFKD", ch) of one character.
NFKD(c) == IF c = "e_acute" THEN <<"e", "acute">> ELSE <<c>>

\* unicodedata.category(ch) == "Mn"
IsMn(c) == c = "acute"

\* EXTRA_CHAR_REPLACEMENTS, the entries the inputs can reach.
EXTRA_CHAR_REPLACEMENTS == ("eszett" :> <<"s", "s">>)

IsSpace(c) == c = " "

RECURSIVE Flatten(_)
Flatten(ss) == IF ss = <<>> THEN <<>> ELSE Head(ss) \o Flatten(Tail(ss))

\* str.strip(): whitespace removed at both ends.
RECURSIVE LStrip(_, _)
LStrip(s, c) == IF s # <<>> /\ Head(s) = c THEN LStrip(Tail(s), c) ELSE s

RECURSIVE RStrip(_, _)
RStrip(s, c) ==
    IF s # <<>> /\ s[Len(s)] = c THEN RStrip(SubSeq(s, 1, Len(s) - 1), c) ELSE s

Strip(s, c) == RStrip(LStrip(s, c), c)

\* A character class of a regular expression: [chars], or [^chars] when negated.
InClass(cls, c) == IF cls.negated THEN c \notin cls.chars ELSE c \in cls.chars

\* re.sub with count=1: only the first run of the class becomes r.
SubRuns_FirstRunOnly(s, cls, r) ==
    LET hits == {i \in 1..Len(s) : InClass(cls, s[i])}
    IN  IF hits = {} THEN s
        ELSE LET first == CHOOSE i \in hits : \A j \in hits : i <= j
                 last == CHOOSE i \in first..Len(s) :
                             /\ \A j \in first..i : InClass(cls, s[j])
                             /\ (i = Len(s) \/ ~InClass(cls, s[i + 1]))
             IN  SubSeq(s, 1, first - 1) \o <<r>> \o SubSeq(s, last + 1, Len(s))

\* re.sub(r"[class]+", r, s) for a one-character replacement r: every maximal
\* run of characters of the class becomes one r.
SubRuns(s, cls, r) ==
    LET idx == SelectSeq([i \in 1..Len(s) |-> i],
                         LAMBDA i: \/ ~InClass(cls, s[i])
                                   \/ i = 1
                                   \/ ~InClass(cls, s[i - 1]))
    IN  [j \in 1..Len(idx) |-> IF InClass(cls, s[idx[j]]) THEN r ELSE s[idx[j]]]

\* re.sub(r"[class]", r, s): every character of the class becomes r.
SubEach(s, cls, r) ==
    [i \in 1..Len(s) |-> IF InClass(cls, s[i]) THEN r ELSE s[i]]

\* ------------------------------------------------------------ normalisation

\* _normalize_value: NFC. The one composition the inputs can reach is
\* e + U+0301 -> U+00E9.
RECURSIVE NFC(_)
NFC(s) ==
    IF Len(s) >= 2 /\ s[1] = "e" /\ s[2] = "acute"
    THEN <<"e_acute">> \o NFC(SubSeq(s, 3, Len(s)))
    ELSE IF s = <<>> THEN <<>> ELSE <<Head(s)>> \o NFC(Tail(s))

_normalize_value(s) == IF s = None THEN <<>> ELSE NFC(s)

_strip_diacritics(value) ==
    IF value = None THEN <<>>
    ELSE LET decomposed == Flatten([i \in 1..Len(value) |-> NFKD(value[i])])
         IN  Flatten([i \in 1..Len(decomposed) |->
                 IF decomposed[i] \in DOMAIN EXTRA_CHAR_REPLACEMENTS
                 THEN EXTRA_CHAR_REPLACEMENTS[decomposed[i]]
                 ELSE IF IsMn(decomposed[i]) THEN <<>>
                 ELSE <<decomposed[i]>>])

\* [,/_]  [^a-z0-9]  \s  [^a-z0-9_]  _
CommaSlashUnderscore == [negated |-> FALSE, chars |-> {",", "/", "_"}]
NotAlnum == [negated |-> TRUE, chars |-> LowerLetters \cup Digits]
Space == [negated |-> FALSE, chars |-> {" "}]
NotKeyChar == [negated |-> TRUE, chars |-> LowerLetters \cup Digits \cup {"_"}]
Underscore == [negated |-> FALSE, chars |-> {"_"}]

_normalize_search_text(value) ==
    IF value = None THEN <<>>
    ELSE LET lowered == LowerStr(value)
             stripped == _strip_diacritics(lowered)
             cleaned1 == SubRuns(stripped, CommaSlashUnderscore, " ")
             cleaned2 == SubRuns(cleaned1, NotAlnum, " ")
         IN  Strip(SubRuns(cleaned2, Space, " "), " ")

_normalize_tags(s) == _normalize_search_text(s)

\* A key normalisation that only lower-cases: no trimming, no folding of
\* diacritics, no underscores for the other characters.
_normalize_key_LowerOnly(s) == IF s = None THEN <<>> ELSE LowerStr(s)

_normalize_key(s) ==
    IF s = None THEN <<>>
    ELSE LET s1 == LowerStr(Strip(s, " "))
             s2 == _strip_diacritics(s1)
             s3 == SubEach(s2, NotKeyChar, "_")
         IN  Strip(SubRuns(s3, Underscore, "_"), "_")

\* str.split(): the maximal runs of non-space characters, in order.
RECURSIVE SplitFrom(_, _, _)
SplitFrom(s, i, cur) ==
    IF i > Len(s) THEN (IF cur = <<>> THEN <<>> ELSE <<cur>>)
    ELSE IF IsSpace(s[i])
         THEN (IF cur = <<>> THEN <<>> ELSE <<cur>>) \o SplitFrom(s, i + 1, <<>>)
         ELSE SplitFrom(s, i + 1, Append(cur, s[i]))

Split(s) == SplitFrom(s, 1, <<>>)

Range(f) == {f[i] : i \in DOMAIN f}

\* ------------------------------------------------------------ scoring

\* memory.py:21: BM25_WEIGHT = 0.5, as the fraction 1/2.
BM25_WEIGHT_NUM == 1
BM25_WEIGHT_DEN == 2

\* A rank is <<r>> for the number r, or <<>> for SQL NULL / Python None.
NoRank == <<>>

\* A max that returns its first argument.
Max_KeepsFirst(a, b) == a

Max(a, b) == IF a >= b THEN a ELSE b
Min(a, b) == IF a <= b THEN a ELSE b

\* _calculate_match_score, as the exact fraction <<numerator, denominator>>.
_calculate_match_score(source_tokens, candidate_tokens, bm25_raw) ==
    LET intersection == source_tokens \cap candidate_tokens
        union == source_tokens \cup candidate_tokens
        union_size == IF Cardinality(union) = 0 THEN 1 ELSE Cardinality(union)
        empty == source_tokens = {} \/ candidate_tokens = {}
        jaccard == IF empty THEN <<0, 1>>
                   ELSE <<Cardinality(intersection), union_size>>
    IN  IF ~empty /\ intersection = {} THEN <<0, 1>>
        ELSE IF bm25_raw # NoRank
             THEN LET m == 1 + Max(bm25_raw[1], 0)
                      w == BM25_WEIGHT_NUM
                      d == BM25_WEIGHT_DEN
                  IN  \* w/d * 1/m + (d-w)/d * jn/jd
                      <<w * jaccard[2] + (d - w) * jaccard[1] * m,
                        d * m * jaccard[2]>>
             ELSE jaccard

ScorePositive(score) == score[1] > 0

\* ------------------------------------------------------------ query planner

\* memory.py:16
NEAR_DISTANCE == 5

\* A window that is not clamped.
_near_distance_for_tokens_Unclamped(n) == IF n <= 1 THEN 0 ELSE 2 * n - 1

_near_distance_for_tokens(n) ==
    IF n <= 1 THEN 0
    ELSE LET val == 2 * n - 1
             val1 == IF val < 3 THEN 3 ELSE val
         IN  IF val1 > NEAR_DISTANCE THEN NEAR_DISTANCE ELSE val1

\* " ".join(tokens), " AND ".join(tokens), ...
RECURSIVE Join(_, _)
Join(tokens, sep) ==
    IF tokens = <<>> THEN <<>>
    ELSE IF Len(tokens) = 1 THEN tokens[1]
    ELSE tokens[1] \o sep \o Join(Tail(tokens), sep)

\* str(n) of a one-digit number.
DigitText(n) == <<CHOOSE c \in Digits :
                    c = <<"0", "1", "2", "3", "4", "5", "6", "7", "8", "9">>[n + 1]>>

\* A loop that drops nothing.
DedupByText_KeepsAll(variants, seen) == variants

\* First occurrences only, order kept (the seen/out loop), by query text.
RECURSIVE DedupByText(_, _)
DedupByText(variants, seen) ==
    IF variants = <<>> THEN <<>>
    ELSE IF Head(variants).text \in seen THEN DedupByText(Tail(variants), seen)
    ELSE <<Head(variants)>>
             \o DedupByText(Tail(variants), seen \cup {Head(variants).text})

\* _build_fts_queries. A variant is the query text the code builds, with the
\* reading FTS5 gives that text: kind, its tokens, and the NEAR distance.
_build_fts_queries(raw_query) ==
    LET normalized_query == _normalize_search_text(raw_query)
        tokens == IF normalized_query # <<>> THEN Split(normalized_query) ELSE <<>>
        n == Len(tokens)
        V(text, kind, dist) ==
            [text |-> text, kind |-> kind, tokens |-> tokens, dist |-> dist]
        phrase == IF n >= 2
                  THEN <<V(<<"\"">> \o Join(tokens, <<" ">>) \o <<"\"">>, "phrase", 0)>>
                  ELSE <<>>
        near == IF n >= 2
                THEN <<V(<<"N", "E", "A", "R", "(">> \o Join(tokens, <<" ">>)
                             \o <<",", " ">> \o DigitText(_near_distance_for_tokens(n))
                             \o <<")">>,
                         "near", _near_distance_for_tokens(n))>>
                ELSE <<>>
        conj == IF n = 0 THEN <<>>
                ELSE IF n = 1 THEN <<V(tokens[1], "and", 0)>>
                ELSE <<V(Join(tokens, <<" ", "A", "N", "D", " ">>), "and", 0)>>
        disj == IF n = 0 THEN <<>>
                ELSE <<V(Join([i \in 1..n |-> tokens[i] \o <<"*">>],
                              <<" ", "O", "R", " ">>), "or_prefix", 0)>>
        norm == IF normalized_query # <<>>
                THEN <<V(normalized_query, "and", 0)>> ELSE <<>>
        rq == IF raw_query = None THEN <<>> ELSE Strip(raw_query, " ")
        raw == IF rq # <<>> THEN <<V(rq, "raw", 0)>> ELSE <<>>
    IN  DedupByText(phrase \o near \o conj \o disj \o norm \o raw, {})

\* ------------------------------------------------------------ full-text index

\* The unicode61 tokenizer with remove_diacritics 2: letters and digits make
\* tokens, folded to lower case with their diacritics removed; every other
\* character separates. (It keeps U+00DF as it is.)
FtsTokens(text) ==
    Split(Flatten([i \in 1..Len(text) |->
        LET c == Lower(text[i])
        IN  IF c = "acute" THEN <<>>
            ELSE IF c = "e_acute" THEN <<"e">>
            ELSE IF c \in LowerLetters \cup Digits \cup {"eszett"} THEN <<c>>
            ELSE <<" ">>]))

\* The token lists of an index entry's three columns.
EntryColumns(e) == <<FtsTokens(e.key), FtsTokens(e.value), FtsTokens(e.tags)>>

IsPrefix(p, t) == Len(p) <= Len(t) /\ SubSeq(t, 1, Len(p)) = p

\* A phrase: its tokens side by side, in order, in one column.
PhraseIn(col, toks) ==
    /\ toks # <<>>
    /\ \E i \in 1..Len(col) :
          i + Len(toks) - 1 <= Len(col) /\ SubSeq(col, i, i + Len(toks) - 1) = toks

\* NEAR(t1 ... tn, d): one place per token in one column, with at most d tokens
\* between the first place and the last.
NearIn(col, toks, d) ==
    \E pos \in [1..Len(toks) -> 1..Len(col)] :
        /\ \A j \in 1..Len(toks) : col[pos[j]] = toks[j]
        /\ \A j, k \in 1..Len(toks) : pos[k] - pos[j] - 1 <= d

TokenInEntry(e, tok) == \E c \in 1..3 : tok \in Range(EntryColumns(e)[c])

\* The characters of an FTS5 bareword, and the words FTS5 reads as operators.
BarewordChars ==
    LowerLetters \cup Digits \cup DOMAIN UpperToLower
        \cup {"_", "e_acute", "acute", "eszett"}

FtsKeywords == {<<"A", "N", "D">>, <<"O", "R">>, <<"N", "O", "T">>,
                <<"N", "E", "A", "R">>}

\* Whether FTS5 accepts the variant's text as a query. The texts the planner
\* builds from normalised tokens are well formed; the raw text is, here, when
\* it is barewords and spaces only and no bareword is an operator.
VariantWellFormed(v) ==
    v.kind = "raw" =>
        /\ \A i \in 1..Len(v.text) : v.text[i] \in BarewordChars \cup {" "}
        /\ \A w \in Range(Split(v.text)) : w \notin FtsKeywords

\* mem_fts MATCH ?, for one index entry.
FtsMatch(v, e) ==
    LET cols == EntryColumns(e)
    IN  CASE v.kind = "phrase" -> \E c \in 1..3 : PhraseIn(cols[c], v.tokens)
          [] v.kind = "near" -> \E c \in 1..3 : NearIn(cols[c], v.tokens, v.dist)
          [] v.kind = "and" -> \A i \in 1..Len(v.tokens) : TokenInEntry(e, v.tokens[i])
          [] v.kind = "or_prefix" ->
                \E i \in 1..Len(v.tokens) : \E c \in 1..3 :
                    \E t \in Range(cols[c]) : IsPrefix(v.tokens[i], t)
          [] v.kind = "raw" ->
                \* barewords, implicitly ANDed; each is tokenized into a phrase
                \A w \in Range(Split(v.text)) :
                    \E c \in 1..3 : PhraseIn(cols[c], FtsTokens(w))

\* ------------------------------------------------------------ the store

\* A time is a whole number of days; NoTime is a NULL expires_at.
NoTime == -1

\* Bounds of the model.
MaxTime == 2
MaxOps == 2

Tasks == {"t1", "t2"}

\* The worker threads that storage calls run on (asyncio.to_thread).
Threads == {"w1", "w2"}

VARIABLES
    mem,        \* the rows of table mem
    mem_fts,    \* the entries of the full-text index: [rowid, key, value, tags]
    seq,        \* sqlite_sequence of mem: the largest id ever given (AUTOINCREMENT)
    now,        \* the wall clock, datetime.now(UTC)
    task,       \* task -> the locals of the service call it is running
    ops,        \* service calls started so far
    _DB_READY,  \* the module's readiness flag
    _DB_READY_LOCK, \* the thread that holds the flag's lock, or "free"
    thread,     \* thread -> where it is in the storage call it is running
    applied,    \* a text, and the results of a function applied to it
    _INDEX_LOCKS,           \* common_utilities: key -> its asyncio.Lock
    _INDEX_LOCKS_COUNTS,    \* common_utilities: key -> its reference count
    index_lock,             \* the asyncio.Lock objects created so far
    caller,                 \* caller -> the locals of the cache call it runs
    cache_entries,          \* the rows of table cache_entries: key -> value
    calls                   \* cache calls started so far

vars == <<mem, mem_fts, seq, now, task, ops, _DB_READY, _DB_READY_LOCK, thread,
          applied, _INDEX_LOCKS, _INDEX_LOCKS_COUNTS, index_lock, caller,
          cache_entries, calls>>

\* The state of the memory store, and the state of the cache module.
memVars == <<mem, mem_fts, seq, now, task, ops, _DB_READY, _DB_READY_LOCK, thread>>
cacheVars == <<_INDEX_LOCKS, _INDEX_LOCKS_COUNTS, index_lock, caller,
               cache_entries, calls>>

\* The tasks that call the cache services.
Callers == {"c1", "c2", "c3"}

\* A dict without entries.
EmptyDict == [k \in {} |-> 0]

\* A caller that runs no cache call; lock is self.lock, 0 for None.
IdleCaller ==
    [op |-> "none", pc |-> "idle", next |-> "idle", key |-> <<>>, lock |-> 0,
     value |-> <<>>,
     add_list |-> <<>>, remove_list |-> <<>>, replace_list |-> <<>>,
     entries |-> <<>>, status |-> "none"]

\* No text has been given to a function.
NotApplied == [input |-> <<>>, fn |-> "none", out |-> <<>>]

\* The cache module after import, its table empty, and no function applied.
CacheIdle ==
    /\ applied = NotApplied
    /\ _INDEX_LOCKS = EmptyDict
    /\ _INDEX_LOCKS_COUNTS = EmptyDict
    /\ index_lock = <<>>
    /\ caller = [c \in Callers |-> IdleCaller]
    /\ cache_entries = EmptyDict
    /\ calls = 0

\* The searchable projection of a row: what the triggers put in the index.
FtsEntry(row) ==
    [rowid |-> row.id, key |-> row.key, value |-> row.value,
     tags |-> row.tags_search]

\* A storage call's outcome: the state it commits, or (raised) a
\* sqlite3.DatabaseError with the state as it was (the transaction is rolled
\* back when the connection is closed).
Committed(m, f, s) == [raised |-> FALSE, mem |-> m, mem_fts |-> f, seq |-> s]
Raised(m, f, s) == [raised |-> TRUE, mem |-> m, mem_fts |-> f, seq |-> s]

\* Trigger mem_ai: AFTER INSERT ON mem.
mem_ai(f, new) == f \cup {FtsEntry(new)}

\* FTS5's 'delete' command needs the entry it is told to remove: on an index
\* that does not hold it the statement fails (database disk image is
\* malformed).
FtsDeleteFails(f, old) == FtsEntry(old) \notin f

\* Trigger mem_ad: AFTER DELETE ON mem.
mem_ad(f, old) == f \ {FtsEntry(old)}

\* Trigger mem_au: AFTER UPDATE OF key, value, tags_search, WHEN one differs.
mem_au_when(old, new) ==
    old.key # new.key \/ old.value # new.value \/ old.tags_search # new.tags_search

mem_au(f, old, new) ==
    IF mem_au_when(old, new) THEN (f \ {FtsEntry(old)}) \cup {FtsEntry(new)} ELSE f

RowOf(m, key) == CHOOSE r \in m : r.key = key
HasKey(m, key) == \E r \in m : r.key = key

\* Updates that miss one assignment of the ON CONFLICT clause, or make one
\* too many: value left alone, tags_search left alone, created_at overwritten.
UpsertUpdatedRow_KeepsValue(old, value_norm, scope_norm, tags_raw, tags_search, now_iso, expires_at) ==
    [old EXCEPT !.scope = scope_norm, !.tags = tags_raw,
                !.tags_search = tags_search, !.last_used_at = now_iso,
                !.expires_at = expires_at]

UpsertUpdatedRow_KeepsTagsSearch(old, value_norm, scope_norm, tags_raw, tags_search, now_iso, expires_at) ==
    [old EXCEPT !.value = value_norm, !.scope = scope_norm, !.tags = tags_raw,
                !.last_used_at = now_iso, !.expires_at = expires_at]

UpsertUpdatedRow_ResetsCreatedAt(old, value_norm, scope_norm, tags_raw, tags_search, now_iso, expires_at) ==
    [old EXCEPT !.value = value_norm, !.scope = scope_norm, !.tags = tags_raw,
                !.tags_search = tags_search, !.created_at = now_iso,
                !.last_used_at = now_iso, !.expires_at = expires_at]

\* ON CONFLICT(key) DO UPDATE SET ...: the row after the update.
UpsertUpdatedRow(old, value_norm, scope_norm, tags_raw, tags_search, now_iso, expires_at) ==
    [old EXCEPT !.value = value_norm,
                !.scope = scope_norm,
                !.tags = tags_raw,
                !.tags_search = tags_search,
                !.last_used_at = now_iso,
                !.expires_at = expires_at]

\* INSERT INTO mem(...) VALUES (...): the new row.
UpsertInsertedRow(id, key_norm, value_norm, scope_norm, tags_raw, tags_search, now_iso, expires_at) ==
    [id |-> id, key |-> key_norm, value |-> value_norm, scope |-> scope_norm,
     tags |-> tags_raw, tags_search |-> tags_search, created_at |-> now_iso,
     last_used_at |-> now_iso, expires_at |-> expires_at]

\* The statement of _memory_set_db_sync with its triggers, and the commit.
Upsert(m, f, s, key_norm, value_norm, scope_norm, tags_raw, tags_search, now_iso, expires_at) ==
    IF HasKey(m, key_norm)
    THEN LET old == RowOf(m, key_norm)
             new == UpsertUpdatedRow(old, value_norm, scope_norm, tags_raw,
                                     tags_search, now_iso, expires_at)
         IN  IF mem_au_when(old, new) /\ FtsDeleteFails(f, old)
             THEN Raised(m, f, s)
             ELSE Committed((m \ {old}) \cup {new}, mem_au(f, old, new), s)
    ELSE LET new == UpsertInsertedRow(s + 1, key_norm, value_norm, scope_norm,
                                      tags_raw, tags_search, now_iso, expires_at)
         IN  Committed(m \cup {new}, mem_ai(f, new), s + 1)

\* An expiry test that never finds a row expired.
IsExpired_Never(row, t) == FALSE

\* _fetch_with_expiry: <<expired, row>>, row = <<>> when there is none.
IsExpired(row, t) == row.expires_at # NoTime /\ t > row.expires_at

_fetch_with_expiry(m, key, t) ==
    IF ~HasKey(m, key) THEN <<FALSE, <<>>>>
    ELSE <<IsExpired(RowOf(m, key), t), <<RowOf(m, key)>>>>

\* An UPDATE that sets created_at along with last_used_at.
TouchLastUsed_AlsoCreatedAt(m, key, last_used_iso) ==
    {IF r.key = key THEN [r EXCEPT !.last_used_at = last_used_iso,
                                   !.created_at = last_used_iso]
     ELSE r : r \in m}

\* UPDATE mem SET last_used_at=? WHERE key=? (no trigger: not a column of mem_au).
TouchLastUsed(m, key, last_used_iso) ==
    {IF r.key = key THEN [r EXCEPT !.last_used_at = last_used_iso] ELSE r : r \in m}

\* DELETE FROM mem WHERE <rows>, with trigger mem_ad for each row.
RECURSIVE DeleteEntries(_, _)
DeleteEntries(f, rows) ==
    IF rows = {} THEN f
    ELSE LET r == CHOOSE x \in rows : TRUE
         IN  DeleteEntries(mem_ad(f, r), rows \ {r})

DeleteRows(m, f, s, rows) ==
    IF \E r \in rows : FtsDeleteFails(f, r)
    THEN Raised(m, f, s)
    ELSE Committed(m \ rows, DeleteEntries(f, rows), s)

\* DELETE FROM mem WHERE key=?
ForgetRows(m, key_norm) == {r \in m : r.key = key_norm}

\* A DELETE without the IS NOT NULL test.
PurgeRows_WithoutNullTest(m, cutoff) == {r \in m : r.expires_at < cutoff}

\* DELETE FROM mem WHERE expires_at IS NOT NULL AND expires_at < cutoff
PurgeRows(m, cutoff) == {r \in m : r.expires_at # NoTime /\ r.expires_at < cutoff}

\* A 'rebuild' that leaves the index empty.
Rebuild_LeavesEmpty(m) == {}

\* INSERT INTO mem_fts(mem_fts) VALUES('rebuild'): the index of the table.
Rebuild(m) == {FtsEntry(r) : r \in m}

\* ------------------------------------------------------------ search

\* mem_fts.rank of a row the index matched: bm25, a negative number. Which
\* matched rows come first is SQLite's ranking; every order is allowed here.
FtsRank == -1

\* The sequences of L distinct elements of S.
RECURSIVE InjectiveSeqs(_, _)
InjectiveSeqs(S, L) ==
    IF L = 0 THEN {<<>>}
    ELSE UNION {{Append(q, x) : x \in S \ Range(q)} : q \in InjectiveSeqs(S, L - 1)}

\* SELECT ... FROM mem_fts JOIN mem AS m ON m.id = mem_fts.rowid
\* WHERE mem_fts MATCH ? ORDER BY rank, m.last_used_at DESC LIMIT ?:
\* the lists fetchall() can return.
FtsFetch(v, limit, m, f) ==
    LET matched == {r \in m : \E e \in f : e.rowid = r.id /\ FtsMatch(v, e)}
    IN  InjectiveSeqs(matched, Min(limit, Cardinality(matched)))

\* A loop that appends every fetched row, found before or not.
AddFetched_NoDedup(total, fetched, limit) ==
    LET both == total \o fetched
    IN  SubSeq(both, 1, IF Len(both) <= limit THEN Len(both) ELSE limit + 1)

\* for row in fetched: ... (found_by_key and total_rows grow together)
RECURSIVE AddFetched(_, _, _)
AddFetched(total, fetched, limit) ==
    IF fetched = <<>> THEN total
    ELSE LET row == Head(fetched)
             total1 == IF \E i \in 1..Len(total) : total[i].key = row.key
                       THEN total ELSE Append(total, row)
         IN  IF Len(total1) >= limit THEN total1
             ELSE AddFetched(total1, Tail(fetched), limit)

\* for mv in match_variants: ... : the lists total_rows can end as.
RECURSIVE VariantLoop(_, _, _, _, _)
VariantLoop(variants, total, limit, m, f) ==
    IF variants = <<>> \/ Len(total) >= limit THEN {total}
    ELSE IF ~VariantWellFormed(Head(variants))
         THEN VariantLoop(Tail(variants), total, limit, m, f)
         ELSE UNION {VariantLoop(Tail(variants), AddFetched(total, fetched, limit),
                                 limit, m, f) :
                        fetched \in FtsFetch(Head(variants), limit, m, f)}

Contains(text, part) ==
    \E i \in 1..(Len(text) + 1) :
        i + Len(part) - 1 <= Len(text) /\ SubSeq(text, i, i + Len(part) - 1) = part

\* column LIKE '%q%': LIKE does not tell ASCII upper case from lower.
Like(column, q) == Contains(LowerStr(column), LowerStr(q))

\* The fallback SELECT ... WHERE m.value LIKE ? OR m.tags LIKE ? OR
\* m.tags_search LIKE ? OR m.key LIKE ? ORDER BY m.last_used_at DESC LIMIT ?
LikeFetch(normalized_query, limit, m) ==
    LET matched == {r \in m : \/ Like(r.value, normalized_query)
                              \/ Like(r.tags, normalized_query)
                              \/ Like(r.tags_search, normalized_query)
                              \/ Like(r.key, normalized_query)}
        L == Min(limit, Cardinality(matched))
    IN  {q \in InjectiveSeqs(matched, L) :
            /\ \A i \in 1..(L - 1) : q[i].last_used_at >= q[i + 1].last_used_at
            /\ \A r \in matched \ Range(q) :
                  \A i \in 1..L : q[i].last_used_at >= r.last_used_at}

\* for row in total_rows: results.append({...})
SearchResult(row, query_tokens, rank) ==
    LET candidate_source == IF row.tags_search # <<>> THEN row.tags_search
                            ELSE _normalize_tags(row.tags)
        candidate_tokens == Range(Split(candidate_source))
    IN  [key |-> row.key, value |-> row.value, scope |-> row.scope,
         tags |-> row.tags, created_at |-> row.created_at,
         last_used_at |-> row.last_used_at, expires_at |-> row.expires_at,
         match_score |-> _calculate_match_score(query_tokens, candidate_tokens, rank)]

\* _memory_search_db_sync: the result lists one call can return.
_memory_search_db_sync(query, limit, m, f) ==
    LET normalized_query == _normalize_search_text(query)
        query_tokens == IF normalized_query # <<>>
                        THEN Range(Split(normalized_query)) ELSE {}
        Results(rows, rank) ==
            [i \in 1..Len(rows) |-> SearchResult(rows[i], query_tokens, rank)]
    IN  UNION {IF total # <<>> THEN {Results(total, <<FtsRank>>)}
               ELSE {Results(rows, NoRank) :
                        rows \in LikeFetch(normalized_query, limit, m)} :
                  total \in VariantLoop(_build_fts_queries(query), <<>>, limit, m, f)}

\* a/b > c/d for fractions with positive denominators
ScoreGreater(a, b) == a[1] * b[2] > b[1] * a[2]

\* sorted(..., key=score, reverse=True): stable, the larger score first.
RECURSIVE InsertByScore(_, _)
InsertByScore(sorted, x) ==
    IF sorted = <<>> THEN <<x>>
    ELSE IF ScoreGreater(x.match_score, Head(sorted).match_score)
         THEN <<x>> \o sorted
         ELSE <<Head(sorted)>> \o InsertByScore(Tail(sorted), x)

RECURSIVE SortByScore(_)
SortByScore(q) ==
    IF q = <<>> THEN <<>>
    ELSE InsertByScore(SortByScore(SubSeq(q, 1, Len(q) - 1)), q[Len(q)])

\* The dedup loop of _search_tag_candidates over raw_matches.
RECURSIVE DedupCandidates(_, _, _)
DedupCandidates(raw_matches, exclude_norm, dedup) ==
    IF raw_matches = <<>> THEN dedup
    ELSE LET item == Head(raw_matches)
             existing_key == _normalize_key(item.key)
             skip == \/ existing_key = <<>>
                     \/ existing_key \in exclude_norm
                     \/ \E i \in 1..Len(dedup) : _normalize_key(dedup[i].key) = existing_key
                     \/ ~ScorePositive(item.match_score)
         IN  DedupCandidates(Tail(raw_matches), exclude_norm,
                             IF skip THEN dedup ELSE Append(dedup, item))

\* _condense_candidate_for_selection (the values here are shorter than the
\* preview, so none is cut).
_condense_candidate_for_selection(entry) ==
    [key |-> entry.key, value |-> entry.value, tags |-> entry.tags,
     match_score |-> entry.match_score]

\* _search_tag_candidates, condensed as its callers do: the lists it can return.
_search_tag_candidates(source, exclude_keys, limit, m, f) ==
    LET tags_search == _normalize_tags(source)
        limit_value == Max(1, Min(limit, SEARCH_LIMIT_MAX))
        exclude_norm == {_normalize_key(k) : k \in exclude_keys} \ {<<>>}
        Candidates(raw_matches) ==
            LET sorted_candidates ==
                    SortByScore(DedupCandidates(raw_matches, exclude_norm, <<>>))
                kept == SubSeq(sorted_candidates, 1,
                               Min(limit_value, Len(sorted_candidates)))
            IN  [i \in 1..Len(kept) |-> _condense_candidate_for_selection(kept[i])]
    IN  IF tags_search = <<>> THEN {<<>>}
        ELSE {Candidates(raw_matches) :
                 raw_matches \in _memory_search_db_sync(tags_search, limit_value, m, f)}

\* ------------------------------------------------------------ inputs

Text_Ab == <<"A", " ", "b">>
Text_a_b == <<"a", "_", "b">>
Text_c == <<"c">>
Text_b == <<"b">>
Text_B == <<"B">>
Text_v == <<"v">>
Text_e_acute == <<"e", "acute">>
Text_underscore == <<"_">>

\* The calls of memory_set the tasks make.
SetRequests ==
    {[key |-> Text_Ab, value |-> Text_v, scope |-> None, tags |-> <<>>,
      expiration_days |-> 1, force_new |-> FALSE],
     [key |-> Text_a_b, value |-> Text_e_acute, scope |-> Text_B, tags |-> Text_B,
      expiration_days |-> 0, force_new |-> FALSE],
     [key |-> Text_c, value |-> Text_v, scope |-> None, tags |-> Text_B,
      expiration_days |-> 0, force_new |-> FALSE],
     [key |-> Text_c, value |-> Text_v, scope |-> None, tags |-> Text_B,
      expiration_days |-> 0, force_new |-> TRUE],
     [key |-> Text_underscore, value |-> Text_v, scope |-> None, tags |-> <<>>,
      expiration_days |-> 0, force_new |-> FALSE]}

GetKeys == {Text_a_b, Text_b}
ForgetKeys == {Text_Ab, Text_c}
GraceDays == {0, 1}

\* ------------------------------------------------------------ tasks

NoResult ==
    [status |-> "none", error |-> "", key |-> <<>>, value |-> <<>>,
     key_exists |-> FALSE, force_new_applied |-> FALSE, matches |-> <<>>,
     row |-> <<>>, count |-> 0, grace_days |-> 0, expired |-> 0, fts_rows |-> 0]

IdleTask ==
    [op |-> "none", pc |-> "idle", key |-> <<>>, key_norm |-> <<>>,
     value |-> <<>>, value_norm |-> <<>>, scope_norm |-> <<>>, tags_raw |-> <<>>,
     tags_search |-> <<>>, now_iso |-> 0, expires_at |-> NoTime,
     force_new |-> FALSE, key_exists |-> FALSE, matches |-> <<>>,
     forced_duplicate_override |-> FALSE, row |-> <<>>, last_used_iso |-> 0,
     grace |-> 0, before |-> 0, query |-> <<>>, lim |-> 0,
     expiration_days |-> 0, grace_days |-> 0, limit |-> 0, result |-> NoResult]

\* A thread that runs no storage call. exists is what DB_PATH.exists() last
\* returned to it; stale records that the flag was cleared after the thread's
\* _ensure_db returned and before the thread has set the flag.
IdleThread ==
    [pc |-> "idle", attempt |-> 0, force |-> FALSE, setup |-> FALSE,
     outcome |-> "none", key_norm |-> <<>>, deleted |-> 0,
     exists |-> TRUE, stale |-> FALSE]

Init ==
    /\ mem = {}
    /\ mem_fts = {}
    /\ seq = 0
    /\ now = 0
    /\ task = [t \in Tasks |-> IdleTask]
    /\ ops = 0
    /\ _DB_READY = FALSE
    /\ _DB_READY_LOCK = "free"
    /\ thread = [w \in Threads |-> IdleThread]
    /\ CacheIdle

Free(t) == task[t].pc \in {"idle", "done"}

\* A new service call runs as the first free task.
CanStart(t) ==
    /\ ops < MaxOps
    /\ Free(t)
    /\ t = "t2" => ~Free("t1")

\* A step of a service call: its storage call, if it makes one, has run from
\* beginning to end on a worker thread, which is idle again.
Done(t, fields, result) ==
    /\ task' = [task EXCEPT ![t] = [fields EXCEPT !.pc = "done", !.result = result]]
    /\ UNCHANGED <<_DB_READY_LOCK, thread, applied, cacheVars>>

Goto(t, fields, pc) ==
    /\ task' = [task EXCEPT ![t] = [fields EXCEPT !.pc = pc]]
    /\ UNCHANGED <<_DB_READY_LOCK, thread, applied, cacheVars>>

Store(outcome) ==
    /\ mem' = outcome.mem
    /\ mem_fts' = outcome.mem_fts
    /\ seq' = outcome.seq

\* str(e) of the sqlite3.DatabaseError a storage call raised
DatabaseErrorText == "database disk image is malformed"

\* str(e) of the sqlite3.OperationalError of a storage call that fails on
\* both of its attempts
OperationalErrorText == "unable to open database file"

\* No response: the exception leaves the service call.
StorageError_Escapes(key) == [NoResult EXCEPT !.status = "raised", !.key = key]

\* The response of a service call whose storage call raised.
StorageError(key) ==
    [NoResult EXCEPT !.status = "error", !.error = OperationalErrorText,
                     !.key = key]

\* The clock moves on.
Tick ==
    /\ now < MaxTime
    /\ now' = now + 1
    /\ UNCHANGED <<mem, mem_fts, seq, task, ops, _DB_READY, _DB_READY_LOCK, thread,
                   applied, cacheVars>>

\* ---- memory_set

\* memory_set up to its first await: validation, normalisation, the times.
SetStart(t, req) ==
    /\ CanStart(t)
    /\ ops' = ops + 1
    /\ LET key_norm == _normalize_key(req.key)
           expiration_days_i ==
               Min(Max(req.expiration_days, 0), EXPIRATION_MAX_DAYS)
           scope_norm == IF req.scope = None \/ LowerStr(Strip(req.scope, " ")) = <<>>
                         THEN <<"u", "s", "e", "r">>
                         ELSE LowerStr(Strip(req.scope, " "))
           tags_raw == IF req.tags # <<>> THEN _normalize_value(req.tags)
                       ELSE _normalize_value(req.key)
           fields == [IdleTask EXCEPT
                        !.op = "set", !.key = req.key, !.key_norm = key_norm,
                        !.value = req.value,
                        !.expiration_days = req.expiration_days,
                        !.value_norm = _normalize_value(req.value),
                        !.scope_norm = scope_norm, !.tags_raw = tags_raw,
                        !.tags_search = _normalize_tags(tags_raw),
                        !.now_iso = now,
                        !.expires_at = IF expiration_days_i # 0
                                       THEN now + expiration_days_i ELSE NoTime,
                        !.force_new = req.force_new]
       IN  IF key_norm = <<>> \/ req.value = None
           THEN Done(t, [IdleTask EXCEPT !.op = "set", !.key = req.key],
                     [NoResult EXCEPT !.status = "error",
                                      !.error = "key_or_value_missing"])
           ELSE Goto(t, fields, "set_key_exists")
    /\ UNCHANGED <<mem, mem_fts, seq, now, _DB_READY>>

\* key_exists = await _memory_key_exists_db(key_norm)
SetKeyExists(t, fails) ==
    /\ task[t].pc = "set_key_exists"
    /\ _DB_READY' = ~fails
    /\ LET key_exists == HasKey(mem, task[t].key_norm)
           fields == [task[t] EXCEPT !.key_exists = key_exists]
       IN  IF fails THEN Done(t, task[t], StorageError(task[t].key_norm))
           ELSE IF ~key_exists /\ task[t].tags_search # <<>>
           THEN Goto(t, fields, "set_duplicates")
           ELSE Goto(t, fields, "set_write")
    /\ UNCHANGED <<mem, mem_fts, seq, now, ops>>

\* duplicate_matches = await _search_tag_candidates(...), and the decision on
\* them up to the next await.
SetDuplicates(t, fails) ==
    /\ task[t].pc = "set_duplicates"
    /\ _DB_READY' = ~fails
    /\ \E duplicate_options \in
            (IF fails THEN {<<>>}
             ELSE _search_tag_candidates(task[t].tags_search, {task[t].key_norm},
                                         CANDIDATE_CHECK_LIMIT, mem, mem_fts)) :
          LET fields == [task[t] EXCEPT !.matches = duplicate_options]
          IN  IF duplicate_options # <<>> /\ ~task[t].key_exists
              THEN IF ~task[t].force_new
                   THEN Done(t, fields,
                             [NoResult EXCEPT !.status = "error",
                                              !.error = "duplicate_tags",
                                              !.key = task[t].key_norm,
                                              !.matches = duplicate_options])
                   ELSE Goto(t, [fields EXCEPT !.forced_duplicate_override = TRUE],
                             "set_write")
              ELSE Goto(t, fields, "set_write")
    /\ UNCHANGED <<mem, mem_fts, seq, now, ops>>

\* A response that reports the request's force_new as force_new_applied.
SetOkResult_EchoesForceNew(tk) ==
    [NoResult EXCEPT !.status = "ok", !.key = tk.key_norm, !.value = tk.value_norm,
                     !.key_exists = tk.key_exists,
                     !.force_new_applied = tk.force_new,
                     !.matches = IF tk.forced_duplicate_override
                                 THEN tk.matches ELSE <<>>]

\* The response of a set that wrote.
SetOkResult(tk) ==
    [NoResult EXCEPT !.status = "ok", !.key = tk.key_norm, !.value = tk.value_norm,
                     !.key_exists = tk.key_exists,
                     !.force_new_applied = tk.forced_duplicate_override,
                     !.matches = IF tk.forced_duplicate_override
                                 THEN tk.matches ELSE <<>>]

\* ok_db = await _memory_set_db(...), and the response.
SetWrite(t, fails) ==
    /\ task[t].pc = "set_write"
    /\ _DB_READY' = ~fails
    /\ LET tk == task[t]
           outcome == IF fails THEN Raised(mem, mem_fts, seq)
                      ELSE Upsert(mem, mem_fts, seq, tk.key_norm, tk.value_norm,
                                  tk.scope_norm, tk.tags_raw, tk.tags_search,
                                  tk.now_iso, tk.expires_at)
       IN  /\ Store(outcome)
           /\ IF fails THEN Done(t, tk, StorageError(tk.key_norm))
              ELSE IF outcome.raised
              THEN Done(t, tk, [NoResult EXCEPT !.status = "error",
                                                !.error = DatabaseErrorText,
                                                !.key = tk.key_norm])
              ELSE Done(t, tk, SetOkResult(tk))
    /\ UNCHANGED <<now, ops>>

\* ---- memory_get

\* The not-found branch of get and forget: the suggestion lookup and the
\* response (ambiguous when there are suggestions).
Suggest(t, fails) ==
    /\ _DB_READY' = IF _normalize_tags(task[t].key) = <<>> THEN _DB_READY ELSE ~fails
    /\ \E matches \in
            (IF fails THEN {<<>>}
             ELSE _search_tag_candidates(task[t].key, {task[t].key_norm},
                                         Min(CANDIDATE_CHECK_LIMIT, SEARCH_LIMIT_MAX),
                                         mem, mem_fts)) :
        Done(t, [task[t] EXCEPT !.matches = matches],
             [NoResult EXCEPT !.status = "error",
                              !.error = IF matches # <<>> THEN "ambiguous"
                                        ELSE "not_found",
                              !.key = task[t].key_norm,
                              !.matches = matches])

\* memory_get up to the SELECT of _fetch_with_expiry. The SELECT runs in
\* autocommit; the UPDATE that follows is another transaction.
GetRead(t, key, fails) ==
    /\ CanStart(t)
    /\ ops' = ops + 1
    /\ _DB_READY' = IF _normalize_key(key) = <<>> THEN _DB_READY ELSE ~fails
    /\ LET key_norm == _normalize_key(key)
           fields == [IdleTask EXCEPT !.op = "get", !.key = key,
                                      !.key_norm = key_norm]
           fetched == _fetch_with_expiry(mem, key_norm, now)
           expired == fetched[1]
           row == fetched[2]
       IN  IF key_norm = <<>>
           THEN Done(t, fields, [NoResult EXCEPT !.status = "error",
                                                 !.error = "key_missing",
                                                 !.key = key])
           ELSE IF fails THEN Done(t, fields, StorageError(key_norm))
           ELSE IF row = <<>> THEN Goto(t, fields, "get_suggest")
           ELSE IF expired
                THEN Done(t, [fields EXCEPT !.row = row],
                          [NoResult EXCEPT !.status = "expired",
                                           !.error = "expired",
                                           !.key = row[1].key,
                                           !.value = row[1].value,
                                           !.row = row])
                ELSE Goto(t, [fields EXCEPT !.row = row, !.last_used_iso = now],
                          "get_update")
    /\ UNCHANGED <<mem, mem_fts, seq, now>>

\* UPDATE mem SET last_used_at=? WHERE key=?; commit; return "ok", row_data
GetUpdate(t) ==
    /\ task[t].pc = "get_update"
    /\ mem' = TouchLastUsed(mem, task[t].key_norm, task[t].last_used_iso)
    /\ LET row_data == [task[t].row[1] EXCEPT !.last_used_at = task[t].last_used_iso]
       IN  Done(t, task[t], [NoResult EXCEPT !.status = "ok",
                                             !.key = row_data.key,
                                             !.value = row_data.value,
                                             !.row = <<row_data>>])
    /\ UNCHANGED <<mem_fts, seq, now, ops, _DB_READY>>

GetSuggest(t, fails) ==
    /\ task[t].pc = "get_suggest"
    /\ Suggest(t, fails)
    /\ UNCHANGED <<mem, mem_fts, seq, now, ops>>

\* ---- memory_forget

\* memory_forget up to the return of _memory_forget_db.
ForgetDelete(t, key, fails) ==
    /\ CanStart(t)
    /\ ops' = ops + 1
    /\ _DB_READY' = IF _normalize_key(key) = <<>> THEN _DB_READY ELSE ~fails
    /\ LET key_norm == _normalize_key(key)
           fields == [IdleTask EXCEPT !.op = "forget", !.key = key,
                                      !.key_norm = key_norm]
           rows == ForgetRows(mem, key_norm)
           outcome == IF fails THEN Raised(mem, mem_fts, seq)
                      ELSE DeleteRows(mem, mem_fts, seq, rows)
           deleted == Cardinality(rows)
       IN  IF key_norm = <<>>
           THEN /\ Done(t, fields, [NoResult EXCEPT !.status = "error",
                                                    !.error = "key_missing",
                                                    !.key = key])
                /\ UNCHANGED <<mem, mem_fts, seq>>
           ELSE /\ Store(outcome)
                /\ IF fails THEN Done(t, fields, StorageError(key_norm))
                   ELSE IF outcome.raised
                   THEN Done(t, fields, [NoResult EXCEPT !.status = "error",
                                                         !.error = DatabaseErrorText,
                                                         !.key = key_norm])
                   ELSE IF deleted = 0 THEN Goto(t, fields, "forget_suggest")
                   ELSE Done(t, fields, [NoResult EXCEPT !.status = "ok",
                                                         !.key = key_norm,
                                                         !.count = deleted])
    /\ UNCHANGED now

ForgetSuggest(t, fails) ==
    /\ task[t].pc = "forget_suggest"
    /\ Suggest(t, fails)
    /\ UNCHANGED <<mem, mem_fts, seq, now, ops>>

\* ---- memory_purge_expired

\* memory.py:19
HOUSEKEEPING_GRACE_MAX_DAYS == 365

PurgeExpired(t, grace_days, fails) ==
    /\ CanStart(t)
    /\ ops' = ops + 1
    /\ _DB_READY' = ~fails
    /\ LET grace == Min(Max(grace_days, 0), HOUSEKEEPING_GRACE_MAX_DAYS)
           fields == [IdleTask EXCEPT !.op = "purge_expired", !.grace = grace,
                                      !.grace_days = grace_days]
           cutoff == now - Max(grace, 0)
           rows == PurgeRows(mem, cutoff)
           outcome == IF fails THEN Raised(mem, mem_fts, seq)
                      ELSE DeleteRows(mem, mem_fts, seq, rows)
       IN  /\ Store(outcome)
           /\ IF fails
              THEN Done(t, fields, [StorageError(<<>>) EXCEPT !.grace_days = grace])
              ELSE IF outcome.raised
              THEN Done(t, fields, [NoResult EXCEPT !.status = "error",
                                                    !.error = DatabaseErrorText,
                                                    !.grace_days = grace])
              ELSE Done(t, fields, [NoResult EXCEPT !.status = "ok",
                                                    !.grace_days = grace,
                                                    !.count = Cardinality(rows)])
    /\ UNCHANGED now

\* memory.py:18
HOUSEKEEPING_GRACE_DAYS == 10

\* memory_daily_housekeeping: await memory_purge_expired(grace_days=10)
DailyHousekeeping(t) == PurgeExpired(t, HOUSEKEEPING_GRACE_DAYS, FALSE)

\* ---- memory_reindex_fts

\* SELECT COUNT(*) FROM mem_fts: the index reads its content table, mem.
FtsCount(m) == Cardinality(m)

\* _memory_reindex_fts_db_sync from BEGIN IMMEDIATE to executescript, which
\* commits the open transaction before it runs its script: the count, the
\* DROP and the CREATE of an empty index are committed here.
ReindexDrop(t, fails) ==
    /\ CanStart(t)
    /\ ops' = ops + 1
    /\ _DB_READY' = ~fails
    /\ IF fails
       THEN /\ Done(t, [IdleTask EXCEPT !.op = "reindex_fts"], StorageError(<<>>))
            /\ UNCHANGED mem_fts
       ELSE /\ mem_fts' = {}
            /\ Goto(t, [IdleTask EXCEPT !.op = "reindex_fts",
                                        !.before = FtsCount(mem)],
                    "reindex_rebuild")
    /\ UNCHANGED <<mem, seq, now>>

\* The triggers exist already; then 'rebuild', the second count and the commit.
ReindexRebuild(t) ==
    /\ task[t].pc = "reindex_rebuild"
    /\ mem_fts' = Rebuild(mem)
    /\ Done(t, task[t], [NoResult EXCEPT !.status = "ok",
                                         !.count = FtsCount(mem)])
    /\ UNCHANGED <<mem, seq, now, ops, _DB_READY>>

\* ---- memory_search

\* The queries and limits of the calls of memory_search.
SearchQueries == {Text_b}
SearchLimits == {1}

Search(t, query, limit, fails) ==
    /\ CanStart(t)
    /\ ops' = ops + 1
    /\ _DB_READY' = IF query = <<>> \/ query = None THEN _DB_READY ELSE ~fails
    /\ LET lim == Min(Max(limit, 1), SEARCH_LIMIT_MAX)
           fields == [IdleTask EXCEPT !.op = "search", !.query = query, !.lim = lim,
                                      !.limit = limit]
       IN  IF query = <<>> \/ query = None
           THEN Done(t, [IdleTask EXCEPT !.op = "search"],
                     [NoResult EXCEPT !.status = "error", !.error = "query_missing"])
           ELSE IF fails THEN Done(t, fields, StorageError(<<>>))
           ELSE \E results \in _memory_search_db_sync(query, lim, mem, mem_fts) :
                    Done(t, fields, [NoResult EXCEPT !.status = "ok",
                                                     !.count = Len(results),
                                                     !.matches = results])
    /\ UNCHANGED <<mem, mem_fts, seq, now>>

\* ---- memory_health_check

\* SELECT COUNT(*) FROM mem WHERE expires_at IS NOT NULL AND expires_at < ?
ExpiredCount(m, t) == Cardinality(PurgeRows(m, t))

\* A health check that deletes the expired records it counts.
HealthCheck_Purges(t, fails) ==
    /\ CanStart(t)
    /\ ops' = ops + 1
    /\ _DB_READY' = ~fails
    /\ Store(DeleteRows(mem, mem_fts, seq, PurgeRows(mem, now)))
    /\ Done(t, [IdleTask EXCEPT !.op = "health"],
            [NoResult EXCEPT !.status = "ok",
                             !.count = Cardinality(mem),
                             !.expired = ExpiredCount(mem, now),
                             !.fts_rows = FtsCount(mem)])
    /\ UNCHANGED now

HealthCheck(t, fails) ==
    /\ CanStart(t)
    /\ ops' = ops + 1
    /\ _DB_READY' = ~fails
    /\ IF fails
       THEN Done(t, [IdleTask EXCEPT !.op = "health"], StorageError(<<>>))
       ELSE Done(t, [IdleTask EXCEPT !.op = "health"],
                 [NoResult EXCEPT !.status = "ok",
                                  !.count = Cardinality(mem),
                                  !.expired = ExpiredCount(mem, now),
                                  !.fts_rows = FtsCount(mem)])
    /\ UNCHANGED <<mem, mem_fts, seq, now>>

\* ------------------------------------------------------------ specification

Next ==
    \/ Tick
    \/ \E t \in Tasks : \E req \in SetRequests : SetStart(t, req)
    \/ \E t \in Tasks : SetKeyExists(t, FALSE)
    \/ \E t \in Tasks : SetDuplicates(t, FALSE)
    \/ \E t \in Tasks : SetWrite(t, FALSE)
    \/ \E t \in Tasks : \E key \in GetKeys : GetRead(t, key, FALSE)
    \/ \E t \in Tasks : GetUpdate(t)
    \/ \E t \in Tasks : GetSuggest(t, FALSE)
    \/ \E t \in Tasks : \E key \in ForgetKeys : ForgetDelete(t, key, FALSE)
    \/ \E t \in Tasks : ForgetSuggest(t, FALSE)
    \/ \E t \in Tasks : \E grace_days \in GraceDays : PurgeExpired(t, grace_days, FALSE)
    \/ \E t \in Tasks : ReindexDrop(t, FALSE)
    \/ \E t \in Tasks : ReindexRebuild(t)
    \/ \E t \in Tasks : \E query \in SearchQueries : \E limit \in SearchLimits :
           Search(t, query, limit, FALSE)
    \/ \E t \in Tasks : HealthCheck(t, FALSE)

Spec == Init /\ [][Next]_vars

\* ------------------------------------------------------------ a fuller store

\* The store after six accepted calls of memory_set at time 0: five records
\* d1..d5 whose value holds the word b three times (each with its key as its
\* tags), and the record r with tags "B". No two of them share a tag.
Text_r == <<"r">>
Text_bbb == <<"b", " ", "b", " ", "b">>
DecoyKeys == [i \in 1..CANDIDATE_CHECK_LIMIT |-> <<"d", DigitText(i)[1]>>]

StoredRow(id, key, value, tags) ==
    UpsertInsertedRow(id, _normalize_key(key), _normalize_value(value),
                      <<"u", "s", "e", "r">>,
                      IF tags # <<>> THEN _normalize_value(tags)
                      ELSE _normalize_value(key),
                      _normalize_tags(IF tags # <<>> THEN _normalize_value(tags)
                                      ELSE _normalize_value(key)),
                      0, NoTime)

DecoyRows ==
    {StoredRow(i, DecoyKeys[i], Text_bbb, <<>>) : i \in 1..CANDIDATE_CHECK_LIMIT}
    \cup {StoredRow(CANDIDATE_CHECK_LIMIT + 1, Text_r, Text_v, Text_B)}

InitDecoys ==
    /\ mem = DecoyRows
    /\ mem_fts = Rebuild(DecoyRows)
    /\ seq = CANDIDATE_CHECK_LIMIT + 1
    /\ now = 0
    /\ task = [t \in Tasks |-> IdleTask]
    /\ ops = 0
    /\ _DB_READY = TRUE
    /\ _DB_READY_LOCK = "free"
    /\ thread = [w \in Threads |-> IdleThread]
    /\ CacheIdle

\* The calls made on that store: a set of key "c" with the tags of record r,
\* without and with force_new, a forget of the first of d1..d5, and a get
\* and a forget of "b", which is no record's key and the tag of record r.
DecoyRequests ==
    {[key |-> Text_c, value |-> Text_v, scope |-> None, tags |-> Text_B,
      expiration_days |-> 0, force_new |-> f] : f \in BOOLEAN}

DecoyForgetKeys == {DecoyKeys[1], Text_b}
DecoyGetKeys == {Text_b}

NextDecoys ==
    \/ \E t \in Tasks : \E req \in DecoyRequests : SetStart(t, req)
    \/ \E t \in Tasks : SetKeyExists(t, FALSE)
    \/ \E t \in Tasks : SetDuplicates(t, FALSE)
    \/ \E t \in Tasks : SetWrite(t, FALSE)
    \/ \E t \in Tasks : \E key \in DecoyForgetKeys : ForgetDelete(t, key, FALSE)
    \/ \E t \in Tasks : ForgetSuggest(t, FALSE)
    \/ \E t \in Tasks : \E key \in DecoyGetKeys : GetRead(t, key, FALSE)
    \/ \E t \in Tasks : GetSuggest(t, FALSE)

SpecDecoys == InitDecoys /\ [][NextDecoys]_vars

\* ------------------------------------------------------------ an aged store

\* The store at time 1 after two accepted calls of memory_set at time 0:
\* "A b" with expiration_days 1, and "c" with tags "B", expiration_days 0 and
\* force_new (its tag b is one of the tags of the first).
AgedRows ==
    {UpsertInsertedRow(1, _normalize_key(Text_Ab), _normalize_value(Text_v),
                       <<"u", "s", "e", "r">>, _normalize_value(Text_Ab),
                       _normalize_tags(_normalize_value(Text_Ab)), 0, 1),
     UpsertInsertedRow(2, _normalize_key(Text_c), _normalize_value(Text_v),
                       <<"u", "s", "e", "r">>, _normalize_value(Text_B),
                       _normalize_tags(_normalize_value(Text_B)), 0, NoTime)}

InitAged ==
    /\ mem = AgedRows
    /\ mem_fts = Rebuild(AgedRows)
    /\ seq = 2
    /\ now = 1
    /\ task = [t \in Tasks |-> IdleTask]
    /\ ops = 0
    /\ _DB_READY = TRUE
    /\ _DB_READY_LOCK = "free"
    /\ thread = [w \in Threads |-> IdleThread]
    /\ CacheIdle

\* The calls made on that store. Graces, expirations and limits inside and
\* outside their ranges (0..365 days, 0..3650 days, 1..50 results).
AgedGraceDays == {-1, 0, 1, HOUSEKEEPING_GRACE_MAX_DAYS + 1}
AgedLimits == {0, SEARCH_LIMIT_MAX + 1}
\* One call of memory_set has the empty string as its value.
AgedSetRequests ==
    {[key |-> Text_c, value |-> Text_v, scope |-> None, tags |-> Text_B,
      expiration_days |-> d, force_new |-> FALSE] :
        d \in {-1, 0, 1, EXPIRATION_MAX_DAYS + 1}}
    \cup {[key |-> Text_c, value |-> <<>>, scope |-> None, tags |-> Text_B,
           expiration_days |-> 0, force_new |-> FALSE]}
AgedKeys == {Text_Ab, Text_c, Text_underscore}

NextAged ==
    \/ Tick
    \/ \E t \in Tasks : \E req \in AgedSetRequests : SetStart(t, req)
    \/ \E t \in Tasks : SetKeyExists(t, FALSE)
    \/ \E t \in Tasks : SetWrite(t, FALSE)
    \/ \E t \in Tasks : \E key \in AgedKeys : GetRead(t, key, FALSE)
    \/ \E t \in Tasks : GetUpdate(t)
    \/ \E t \in Tasks : GetSuggest(t, FALSE)
    \/ \E t \in Tasks : \E key \in AgedKeys : ForgetDelete(t, key, FALSE)
    \/ \E t \in Tasks : ForgetSuggest(t, FALSE)
    \/ \E t \in Tasks : \E grace_days \in AgedGraceDays :
           PurgeExpired(t, grace_days, FALSE)
    \/ \E t \in Tasks : DailyHousekeeping(t)
    \/ \E t \in Tasks : ReindexDrop(t, FALSE)
    \/ \E t \in Tasks : ReindexRebuild(t)
    \/ \E t \in Tasks : \E limit \in AgedLimits : Search(t, Text_b, limit, FALSE)

SpecAged == InitAged /\ [][NextAged]_vars

\* ------------------------------------------------------------ a failing storage

\* The service calls on a storage that may fail any call on both of its
\* attempts (sqlite3.OperationalError), starting from the empty store.
FailingSetRequests ==
    {[key |-> Text_c, value |-> Text_v, scope |-> None, tags |-> Text_B,
      expiration_days |-> 0, force_new |-> FALSE]}
FailingGetKeys == {Text_b, Text_c}
FailingForgetKeys == {Text_c}

NextFailing ==
    \/ \E t \in Tasks : \E req \in FailingSetRequests : SetStart(t, req)
    \/ \E t \in Tasks : \E fails \in BOOLEAN : SetKeyExists(t, fails)
    \/ \E t \in Tasks : \E fails \in BOOLEAN : SetDuplicates(t, fails)
    \/ \E t \in Tasks : \E fails \in BOOLEAN : SetWrite(t, fails)
    \/ \E t \in Tasks : \E key \in FailingGetKeys : \E fails \in BOOLEAN :
           GetRead(t, key, fails)
    \/ \E t \in Tasks : GetUpdate(t)
    \/ \E t \in Tasks : \E fails \in BOOLEAN : GetSuggest(t, fails)
    \/ \E t \in Tasks : \E key \in FailingForgetKeys : \E fails \in BOOLEAN :
           ForgetDelete(t, key, fails)
    \/ \E t \in Tasks : \E fails \in BOOLEAN : ForgetSuggest(t, fails)
    \/ \E t \in Tasks : \E fails \in BOOLEAN : PurgeExpired(t, 0, fails)
    \/ \E t \in Tasks : \E fails \in BOOLEAN : ReindexDrop(t, fails)
    \/ \E t \in Tasks : ReindexRebuild(t)
    \/ \E t \in Tasks : \E fails \in BOOLEAN : Search(t, Text_b, 1, fails)
    \/ \E t \in Tasks : \E fails \in BOOLEAN : HealthCheck(t, fails)

SpecFailing == Init /\ [][NextFailing]_vars

\* ------------------------------------------------------------ storage calls

\* _memory_forget_db_sync on worker threads, statement by statement: the
\* retry loop, _ensure_db_once and _reset_db_ready. The store is the aged
\* store; the readiness flag is set or not when the first call starts.
InitStorage ==
    /\ mem = AgedRows
    /\ mem_fts = Rebuild(AgedRows)
    /\ seq = 2
    /\ now = 1
    /\ task = [t \in Tasks |-> IdleTask]
    /\ ops = 0
    /\ _DB_READY \in BOOLEAN
    /\ _DB_READY_LOCK = "free"
    /\ thread = [w \in Threads |-> IdleThread]
    /\ CacheIdle

StorageKeys == {_normalize_key(Text_Ab), _normalize_key(Text_c)}

ThreadGoto(w, fields, pc) ==
    /\ thread' = [thread EXCEPT ![w] = [fields EXCEPT !.pc = pc]]
    /\ UNCHANGED <<task, now, applied, cacheVars>>

\* asyncio.to_thread(_memory_forget_db_sync, key_norm): for attempt in range(2)
StorageCall(w, key_norm) ==
    /\ ops < MaxOps
    /\ thread[w].pc \in {"idle", "returned", "raised"}
    /\ ops' = ops + 1
    /\ ThreadGoto(w, [IdleThread EXCEPT !.key_norm = key_norm], "ensure_force")
    /\ UNCHANGED <<mem, mem_fts, seq, _DB_READY, _DB_READY_LOCK>>

\* _ensure_db_once(force=attempt == 1): if force: _DB_READY = False
EnsureForce(w) ==
    /\ thread[w].pc = "ensure_force"
    /\ _DB_READY' = IF thread[w].force THEN FALSE ELSE _DB_READY
    /\ thread' = [v \in Threads |->
                     IF v = w THEN [thread[w] EXCEPT !.pc = "ensure_check"]
                     ELSE IF thread[w].force /\ thread[v].pc = "ensure_ready"
                     THEN [thread[v] EXCEPT !.stale = TRUE]
                     ELSE thread[v]]
    /\ UNCHANGED <<task, now, applied, cacheVars>>
    /\ UNCHANGED <<mem, mem_fts, seq, ops, _DB_READY_LOCK>>

\* if _DB_READY and DB_PATH.exists(): return
EnsureCheck(w, exists) ==
    /\ thread[w].pc = "ensure_check"
    /\ IF _DB_READY /\ exists
       THEN ThreadGoto(w, [thread[w] EXCEPT !.exists = exists], "statement")
       ELSE ThreadGoto(w, [thread[w] EXCEPT !.exists = exists], "ensure_acquire")
    /\ UNCHANGED <<mem, mem_fts, seq, ops, _DB_READY, _DB_READY_LOCK>>

\* with _DB_READY_LOCK: if force: _DB_READY = False;
\* if not _DB_READY or not DB_PATH.exists(): (else the lock is released)
EnsureAcquire(w, exists) ==
    /\ thread[w].pc = "ensure_acquire"
    /\ _DB_READY_LOCK = "free"
    /\ _DB_READY' = IF thread[w].force THEN FALSE ELSE _DB_READY
    /\ IF ~_DB_READY' \/ ~exists
       THEN /\ _DB_READY_LOCK' = w
            /\ ThreadGoto(w, [thread[w] EXCEPT !.exists = exists], "ensure_db")
       ELSE /\ _DB_READY_LOCK' = "free"
            /\ ThreadGoto(w, [thread[w] EXCEPT !.exists = exists], "statement")
    /\ UNCHANGED <<mem, mem_fts, seq, ops>>

\* _ensure_db(): schema setup. It returns, or raises sqlite3.OperationalError,
\* which leaves the with block (the lock is released) and the try block.
EnsureDb(w, raises) ==
    /\ thread[w].pc = "ensure_db"
    /\ _DB_READY_LOCK = w
    /\ IF raises
       THEN /\ _DB_READY_LOCK' = "free"
            /\ ThreadGoto(w, thread[w], "reset")
       ELSE /\ _DB_READY_LOCK' = w
            /\ ThreadGoto(w, [thread[w] EXCEPT !.setup = TRUE, !.stale = FALSE],
                          "ensure_ready")
    /\ UNCHANGED <<mem, mem_fts, seq, ops, _DB_READY>>

\* _DB_READY = True, and the end of the with block
EnsureReady(w) ==
    /\ thread[w].pc = "ensure_ready"
    /\ _DB_READY_LOCK = w
    /\ _DB_READY' = TRUE
    /\ _DB_READY_LOCK' = "free"
    /\ ThreadGoto(w, thread[w], "statement")
    /\ UNCHANGED <<mem, mem_fts, seq, ops>>

\* The connection, the DELETE and the commit: return deleted, or
\* sqlite3.OperationalError (caught), or another sqlite3.Error (not caught).
Statement(w, raises) ==
    /\ thread[w].pc = "statement"
    /\ LET rows == ForgetRows(mem, thread[w].key_norm)
           outcome == IF raises THEN Raised(mem, mem_fts, seq)
                      ELSE DeleteRows(mem, mem_fts, seq, rows)
       IN  /\ Store(outcome)
           /\ IF raises THEN ThreadGoto(w, thread[w], "reset")
              ELSE IF outcome.raised
              THEN ThreadGoto(w, [thread[w] EXCEPT !.outcome = "raised"], "raised")
              ELSE ThreadGoto(w, [thread[w] EXCEPT !.outcome = "returned",
                                                   !.deleted = Cardinality(rows)],
                              "returned")
    /\ UNCHANGED <<ops, _DB_READY, _DB_READY_LOCK>>

\* except sqlite3.OperationalError: _reset_db_ready() (with _DB_READY_LOCK:
\* _DB_READY = False); if attempt == 0: sleep and continue; else raise
ResetDbReady(w) ==
    /\ thread[w].pc = "reset"
    /\ _DB_READY_LOCK = "free"
    /\ _DB_READY' = FALSE
    /\ IF thread[w].attempt = 0
       THEN ThreadGoto(w, thread[w], "sleep")
       ELSE ThreadGoto(w, [thread[w] EXCEPT !.outcome = "raised"], "raised")
    /\ UNCHANGED <<mem, mem_fts, seq, ops, _DB_READY_LOCK>>

\* A loop that starts its next attempt as the first one again.
Sleep_StartsOver(w) ==
    /\ thread[w].pc = "sleep"
    /\ ThreadGoto(w, thread[w], "ensure_force")
    /\ UNCHANGED <<mem, mem_fts, seq, ops, _DB_READY, _DB_READY_LOCK>>

\* time.sleep(0.1); continue: the second attempt, with force
Sleep(w) ==
    /\ thread[w].pc = "sleep"
    /\ ThreadGoto(w, [thread[w] EXCEPT !.attempt = 1, !.force = TRUE,
                                        !.setup = FALSE],
                  "ensure_force")
    /\ UNCHANGED <<mem, mem_fts, seq, ops, _DB_READY, _DB_READY_LOCK>>

\* The statements of one thread.
ThreadStep(w) ==
    \/ EnsureForce(w)
    \/ \E exists \in BOOLEAN : EnsureCheck(w, exists)
    \/ \E exists \in BOOLEAN : EnsureAcquire(w, exists)
    \/ \E raises \in BOOLEAN : EnsureDb(w, raises)
    \/ EnsureReady(w)
    \/ \E raises \in BOOLEAN : Statement(w, raises)
    \/ ResetDbReady(w)
    \/ Sleep(w)

NextStorage ==
    \/ \E w \in Threads : \E key_norm \in StorageKeys : StorageCall(w, key_norm)
    \/ \E w \in Threads : EnsureForce(w)
    \/ \E w \in Threads : \E exists \in BOOLEAN : EnsureCheck(w, exists)
    \/ \E w \in Threads : \E exists \in BOOLEAN : EnsureAcquire(w, exists)
    \/ \E w \in Threads : \E raises \in BOOLEAN : EnsureDb(w, raises)
    \/ \E w \in Threads : EnsureReady(w)
    \/ \E w \in Threads : \E raises \in BOOLEAN : Statement(w, raises)
    \/ \E w \in Threads : ResetDbReady(w)
    \/ \E w \in Threads : Sleep(w)

SpecStorage == InitStorage /\ [][NextStorage]_vars

\* Every thread that can take a step takes one: a worker thread is scheduled,
\* sqlite3 gives up a busy statement after busy_timeout, and the sleep ends.
SpecStorageFair == SpecStorage /\ \A w \in Threads : WF_vars(ThreadStep(w))

\* ------------------------------------------------------------ a searched store

\* A store to search: one record with both query words side by side in its
\* tags, one with them side by side in its value and one of them among its
\* four tags, and one with a single word as its tag and a longer word as its
\* value.
Text_a_sp_b == <<"a", " ", "b">>
Text_a_c_d_e == <<"a", " ", "c", " ", "d", " ", "e">>
Text_o == <<"o">>

SearchedRow(id, key, value, tags) ==
    UpsertInsertedRow(id, _normalize_key(key), _normalize_value(value),
                      <<"u", "s", "e", "r">>, _normalize_value(tags),
                      _normalize_tags(_normalize_value(tags)), 0, NoTime)

SearchedRows ==
    {SearchedRow(1, <<"p">>, Text_v, Text_a_sp_b),
     SearchedRow(2, <<"n", "o">>, Text_a_sp_b, Text_a_c_d_e),
     SearchedRow(3, <<"t">>, <<"v", "o">>, <<"a">>)}

InitSearched ==
    /\ mem = SearchedRows
    /\ mem_fts = Rebuild(SearchedRows)
    /\ seq = 3
    /\ now = 0
    /\ task = [t \in Tasks |-> IdleTask]
    /\ ops = 0
    /\ _DB_READY = TRUE
    /\ _DB_READY_LOCK = "free"
    /\ thread = [w \in Threads |-> IdleThread]
    /\ CacheIdle

SearchedQueries == {Text_a_sp_b, Text_v, Text_o}
SearchedLimits == {0, 1, 2, 3, SEARCH_LIMIT_MAX + 1}
SearchedKeys == {<<"p">>, <<"n", "o">>, <<"t">>, Text_c}

NextSearched ==
    \/ \E t \in Tasks : \E key \in SearchedKeys : ForgetDelete(t, key, FALSE)
    \/ \E t \in Tasks : ForgetSuggest(t, FALSE)
    \/ \E t \in Tasks : \E query \in SearchedQueries : \E limit \in SearchedLimits :
           Search(t, query, limit, FALSE)

SpecSearched == InitSearched /\ [][NextSearched]_vars

\* ------------------------------------------------------------ pure functions

\* The texts the functions are applied to: every text of at most MaxLen
\* characters over capitals, letters, a digit, separators, a letter with a
\* diacritic and a letter with a replacement.
MaxLen == 3
PureAlphabet == {"A", "b", "1", " ", "_", ",", "e_acute", "eszett"}
Texts == UNION {[1..n -> PureAlphabet] : n \in 0..MaxLen}

InitPure ==
    /\ mem = {}
    /\ mem_fts = {}
    /\ seq = 0
    /\ now = 0
    /\ task = [t \in Tasks |-> IdleTask]
    /\ ops = 0
    /\ _DB_READY = FALSE
    /\ _DB_READY_LOCK = "free"
    /\ thread = [w \in Threads |-> IdleThread]
    /\ applied \in {[NotApplied EXCEPT !.input = s] : s \in Texts}
    /\ _INDEX_LOCKS = EmptyDict
    /\ _INDEX_LOCKS_COUNTS = EmptyDict
    /\ index_lock = <<>>
    /\ caller = [c \in Callers |-> IdleCaller]
    /\ cache_entries = EmptyDict
    /\ calls = 0

\* The text a function is applied to next: the input, then its own result.
Latest == IF applied.out = <<>> THEN applied.input ELSE applied.out[Len(applied.out)]

Apply(fn, result) ==
    /\ applied.fn \in {"none", fn}
    /\ Len(applied.out) < 2
    /\ applied' = [applied EXCEPT !.fn = fn, !.out = Append(@, result)]
    /\ UNCHANGED <<memVars, cacheVars>>

\* _normalize_key(s), and _normalize_key of its result
ApplyNormalizeKey == Apply("_normalize_key", _normalize_key(Latest))

\* _normalize_search_text(s), and _normalize_search_text of its result
ApplyNormalizeSearchText ==
    Apply("_normalize_search_text", _normalize_search_text(Latest))

\* _build_fts_queries(raw_query): the texts of the variants
ApplyBuildFtsQueries ==
    /\ applied.fn = "none"
    /\ LET variants == _build_fts_queries(applied.input)
       IN  Apply("_build_fts_queries", [i \in 1..Len(variants) |-> variants[i].text])

NextPure ==
    \/ ApplyNormalizeKey
    \/ ApplyNormalizeSearchText
    \/ ApplyBuildFtsQueries

SpecPure == InitPure /\ [][NextPure]_vars

\* ------------------------------------------------------------ query windows

\* The queries of up to MaxTokens one-letter tokens, a space between two.
MaxTokens == 4
WindowTokens == {<<"a">>, <<"b">>, <<"c">>}
WindowQueries ==
    UNION {{Join(tokens, <<" ">>) : tokens \in [1..n -> WindowTokens]} : n \in 0..MaxTokens}

InitWindow ==
    /\ mem = {}
    /\ mem_fts = {}
    /\ seq = 0
    /\ now = 0
    /\ task = [t \in Tasks |-> IdleTask]
    /\ ops = 0
    /\ _DB_READY = FALSE
    /\ _DB_READY_LOCK = "free"
    /\ thread = [w \in Threads |-> IdleThread]
    /\ applied \in {[NotApplied EXCEPT !.input = q] : q \in WindowQueries}
    /\ _INDEX_LOCKS = EmptyDict
    /\ _INDEX_LOCKS_COUNTS = EmptyDict
    /\ index_lock = <<>>
    /\ caller = [c \in Callers |-> IdleCaller]
    /\ cache_entries = EmptyDict
    /\ calls = 0

\* near_dist = _near_distance_for_tokens(len(tokens)) for the tokens of the query
ApplyNearDistance ==
    /\ applied.fn = "none"
    /\ LET tokens == Split(_normalize_search_text(applied.input))
       IN  applied' = [applied EXCEPT
                          !.fn = "_near_distance_for_tokens",
                          !.out = <<_near_distance_for_tokens(Len(tokens))>>]
    /\ UNCHANGED <<memVars, cacheVars>>

NextWindow ==
    \/ ApplyNearDistance
    \/ ApplyBuildFtsQueries

SpecWindow == InitWindow /\ [][NextWindow]_vars

\* ------------------------------------------------------------ scores

\* The token sets and ranks that the score is computed for: every two sets of
\* tokens out of three, and no rank, a bm25 rank (negative), 0 and positive ones.
ScoreTokens == {<<"a">>, <<"b">>, <<"c">>}
MaxRank == 2
ScoreRanks == {NoRank} \cup {<<n>> : n \in -1..MaxRank}

InitScore ==
    /\ mem = {}
    /\ mem_fts = {}
    /\ seq = 0
    /\ now = 0
    /\ task = [t \in Tasks |-> IdleTask]
    /\ ops = 0
    /\ _DB_READY = FALSE
    /\ _DB_READY_LOCK = "free"
    /\ thread = [w \in Threads |-> IdleThread]
    /\ applied \in {[NotApplied EXCEPT !.input =
                         [source_tokens |-> s, candidate_tokens |-> c, bm25_raw |-> r]] :
                       s \in SUBSET ScoreTokens, c \in SUBSET ScoreTokens,
                       r \in ScoreRanks}
    /\ _INDEX_LOCKS = EmptyDict
    /\ _INDEX_LOCKS_COUNTS = EmptyDict
    /\ index_lock = <<>>
    /\ caller = [c \in Callers |-> IdleCaller]
    /\ cache_entries = EmptyDict
    /\ calls = 0

\* match_score = _calculate_match_score(query_tokens, candidate_tokens, rank)
ApplyCalculateMatchScore ==
    /\ applied.fn = "none"
    /\ applied' = [applied EXCEPT
                      !.fn = "_calculate_match_score",
                      !.out = <<_calculate_match_score(applied.input.source_tokens,
                                                       applied.input.candidate_tokens,
                                                       applied.input.bm25_raw)>>]
    /\ UNCHANGED <<memVars, cacheVars>>

SpecScore == InitScore /\ [][ApplyCalculateMatchScore]_vars

\* ------------------------------------------------------------ a lost index

\* The schema without the virtual table mem_fts (the table was dropped): a
\* statement that names the index, or fires a trigger that does, raises
\* sqlite3.OperationalError (no such table: mem_fts). Row ids start at 1.
NoSuchTable == {[rowid |-> 0, key |-> <<>>, value |-> <<>>, tags |-> <<>>]}

\* _ensure_db: CREATE VIRTUAL TABLE IF NOT EXISTS mem_fts. A table that is
\* there is left as it is; one that is missing is created, without any entry.
_ensure_db(f) == IF f = NoSuchTable THEN {} ELSE f

\* The virtual table is dropped behind the program's back.
IndexLost ==
    /\ mem_fts # NoSuchTable
    /\ mem_fts' = NoSuchTable
    /\ UNCHANGED <<mem, seq, now, task, ops, _DB_READY, _DB_READY_LOCK, thread,
                   applied, cacheVars>>

\* ok_db = await _memory_set_db(...) on a schema without the index, and the
\* response. The statement of attempt 0 raises sqlite3.OperationalError (the
\* triggers of mem name mem_fts), the flag is cleared, and attempt 1 runs
\* _ensure_db_once(force=True) and the statement again. With the flag
\* cleared beforehand attempt 0 runs the schema setup itself.
SetWriteRetried(t) ==
    /\ task[t].pc = "set_write"
    /\ mem_fts = NoSuchTable
    /\ _DB_READY' = TRUE
    /\ LET tk == task[t]
           outcome == Upsert(mem, _ensure_db(mem_fts), seq, tk.key_norm,
                             tk.value_norm, tk.scope_norm, tk.tags_raw,
                             tk.tags_search, tk.now_iso, tk.expires_at)
       IN  /\ Store(outcome)
           /\ IF outcome.raised
              THEN Done(t, tk, [NoResult EXCEPT !.status = "error",
                                                !.error = DatabaseErrorText,
                                                !.key = tk.key_norm])
              ELSE Done(t, tk, SetOkResult(tk))
    /\ UNCHANGED <<now, ops>>

\* Calls of memory_set, some of them after the index was lost.
NextRecovery ==
    \/ IndexLost
    \/ \E t \in Tasks : \E req \in SetRequests : SetStart(t, req)
    \/ \E t \in Tasks : SetKeyExists(t, FALSE)
    \/ \E t \in Tasks : SetDuplicates(t, FALSE)
    \/ \E t \in Tasks : mem_fts # NoSuchTable /\ SetWrite(t, FALSE)
    \/ \E t \in Tasks : SetWriteRetried(t)

SpecRecovery == Init /\ [][NextRecovery]_vars

\* ------------------------------------------------------------ the cache

\* common_utilities.py: the cache services memory_cache_set, memory_cache_forget
\* and memory_cache_index_update as tasks of one event loop. A step of a task
\* runs from one await to the next; the storage calls run in worker threads
\* (asyncio.to_thread). Time does not pass here, so no entry expires.
MaxCalls == 2

\* dict operations
Put(d, k, v) == [x \in DOMAIN d \cup {k} |-> IF x = k THEN v ELSE d[x]]
Pop(d, k) == [x \in DOMAIN d \ {k} |-> d[x]]

\* asyncio.Lock(): unlocked, nobody waiting. (key is the registry key the
\* object was made for; the code keeps it in the registry only.)
NewLock(key) == [key |-> key, _locked |-> FALSE, _waiters |-> <<>>]

\* A lock that lets every task in.
CanAcquire_Always(l) == TRUE

\* Lock.acquire() returns without waiting: not locked and nobody queued.
CanAcquire(l) == ~l._locked /\ l._waiters = <<>>

\* A release that wakes nobody.
WakeUpFirst_Nobody(l) == l

\* Lock._wake_up_first(): the future of the first waiter gets its result.
WakeUpFirst(l) ==
    IF l._waiters = <<>> THEN l
    ELSE [l EXCEPT !._waiters[1].done = TRUE]

\* Lock.release()
Release(l) == WakeUpFirst([l EXCEPT !._locked = FALSE])

\* The waiters of a lock without one task.
Without(waiters, c) == SelectSeq(waiters, LAMBDA w : w.caller # c)

\* One registry for every key.
RegistryKey_Shared(key) == <<>>

\* key = self.key: the registry is looked up under the key given.
RegistryKey(key) == key

\* The pcs of a task that is inside the guarded section.
InsidePcs == {"set_write", "forget_delete", "index_read", "index_write"}

\* A call starts on the first task that runs none.
CallerFree(c) == caller[c].pc \in {"idle", "done"}
CallerOrder == <<"c1", "c2", "c3">>
CanCall(c) ==
    /\ calls < MaxCalls
    /\ CallerFree(c)
    /\ \E i \in 1..Len(CallerOrder) :
           /\ CallerOrder[i] = c
           /\ \A j \in 1..(i - 1) : ~CallerFree(CallerOrder[j])

\* __aenter__, up to the return of acquire() or the wait for it; the task goes
\* on at pc once it holds the lock.
Enter(c, fields, pc) ==
    LET key == RegistryKey(fields.key)
        fresh == key \notin DOMAIN _INDEX_LOCKS
        id == IF fresh THEN Len(index_lock) + 1 ELSE _INDEX_LOCKS[key]
        objs == IF fresh THEN Append(index_lock, NewLock(key)) ELSE index_lock
        count == (IF fresh THEN 0 ELSE _INDEX_LOCKS_COUNTS[key]) + 1
        fast == CanAcquire(objs[id])
    IN  /\ _INDEX_LOCKS' = Put(_INDEX_LOCKS, key, id)
        /\ _INDEX_LOCKS_COUNTS' = Put(_INDEX_LOCKS_COUNTS, key, count)
        /\ index_lock' =
               IF fast THEN [objs EXCEPT ![id]._locked = TRUE]
               ELSE [objs EXCEPT ![id]._waiters =
                                    Append(@, [caller |-> c, done |-> FALSE])]
        /\ caller' = [caller EXCEPT ![c] =
                         [fields EXCEPT !.lock = id,
                                        !.pc = IF fast THEN pc ELSE "waiting",
                                        !.next = pc]]

\* acquire() goes on after its future got a result: the task takes the lock.
Resume(c) ==
    /\ caller[c].pc = "waiting"
    /\ \E i \in 1..Len(index_lock[caller[c].lock]._waiters) :
           /\ index_lock[caller[c].lock]._waiters[i].caller = c
           /\ index_lock[caller[c].lock]._waiters[i].done
    /\ index_lock' = [index_lock EXCEPT ![caller[c].lock] =
                         [@ EXCEPT !._waiters = Without(@, c), !._locked = TRUE]]
    /\ caller' = [caller EXCEPT ![c].pc = caller[c].next]
    /\ UNCHANGED <<memVars, applied, _INDEX_LOCKS, _INDEX_LOCKS_COUNTS,
                   cache_entries, calls>>

\* The task is cancelled while it waits in acquire(): it leaves the queue,
\* wakes the next waiter when the lock is free, and CancelledError leaves
\* __aenter__, so that __aexit__ does not run.
CancelWaiting(c) ==
    /\ caller[c].pc = "waiting"
    /\ index_lock' = [index_lock EXCEPT ![caller[c].lock] =
                         LET l == [@ EXCEPT !._waiters = Without(@, c)]
                         IN  IF l._locked THEN l ELSE WakeUpFirst(l)]
    /\ caller' = [caller EXCEPT ![c].pc = "done", ![c].status = "cancelled"]
    /\ UNCHANGED <<memVars, applied, _INDEX_LOCKS, _INDEX_LOCKS_COUNTS,
                   cache_entries, calls>>

\* __aexit__ of task c, which goes on as the record fields.
Exit(c, fields) ==
    LET key == RegistryKey(caller[c].key)
    IN  /\ index_lock' = IF caller[c].lock # 0
                         THEN [index_lock EXCEPT ![caller[c].lock] = Release(@)]
                         ELSE index_lock
        /\ IF key \in DOMAIN _INDEX_LOCKS_COUNTS
           THEN IF _INDEX_LOCKS_COUNTS[key] - 1 <= 0
                THEN /\ _INDEX_LOCKS' = Pop(_INDEX_LOCKS, key)
                     /\ _INDEX_LOCKS_COUNTS' = Pop(_INDEX_LOCKS_COUNTS, key)
                ELSE /\ _INDEX_LOCKS_COUNTS' =
                            Put(_INDEX_LOCKS_COUNTS, key, _INDEX_LOCKS_COUNTS[key] - 1)
                     /\ UNCHANGED _INDEX_LOCKS
           ELSE UNCHANGED <<_INDEX_LOCKS, _INDEX_LOCKS_COUNTS>>
        /\ caller' = [caller EXCEPT ![c] = fields]

\* The stored JSON texts: a list of strings, or a value that is no list.
JsonList(items) == [kind |-> "list", items |-> items]
JsonOther == [kind |-> "other", items |-> <<>>]

\* What _cache_get returns when there is no entry: None.
NoEntry == [kind |-> "none", items |-> <<>>]

\* ---- memory_cache_set

\* memory_cache_set up to its first await.
CacheSetStart(c, key, value) ==
    /\ CanCall(c)
    /\ calls' = calls + 1
    /\ Enter(c, [IdleCaller EXCEPT !.op = "set", !.key = key, !.value = value],
             "set_write")
    /\ UNCHANGED <<memVars, applied, cache_entries>>

\* _cache_set returns (or raises), and the task leaves the section.
CacheSetWrite(c, fails) ==
    /\ caller[c].pc = "set_write"
    /\ cache_entries' = IF fails THEN cache_entries
                        ELSE Put(cache_entries, caller[c].key, caller[c].value)
    /\ Exit(c, [caller[c] EXCEPT !.pc = "done",
                                 !.status = IF fails THEN "error" ELSE "ok"])
    /\ UNCHANGED <<memVars, applied, calls>>

\* ---- memory_cache_forget

CacheForgetStart(c, key) ==
    /\ CanCall(c)
    /\ calls' = calls + 1
    /\ Enter(c, [IdleCaller EXCEPT !.op = "forget", !.key = key], "forget_delete")
    /\ UNCHANGED <<memVars, applied, cache_entries>>

CacheForgetDelete(c, fails) ==
    /\ caller[c].pc = "forget_delete"
    /\ cache_entries' = IF fails THEN cache_entries
                        ELSE Pop(cache_entries, caller[c].key)
    /\ Exit(c, [caller[c] EXCEPT !.pc = "done",
                                 !.status = IF fails THEN "error" ELSE "ok"])
    /\ UNCHANGED <<memVars, applied, calls>>

\* ---- memory_cache_index_update

\* _normalize: the items as stripped strings, the empty ones dropped.
_normalize(_value) ==
    IF _value = None THEN <<>>
    ELSE SelectSeq([i \in 1..Len(_value) |-> Strip(_value[i], " ")],
                   LAMBDA item : item # <<>>)

\* for value in ...: if value not in seen: entries.append(value)
RECURSIVE AppendUnseen(_, _)
AppendUnseen(entries, values) ==
    IF values = <<>> THEN entries
    ELSE AppendUnseen(IF Head(values) \in Range(entries) THEN entries
                      ELSE Append(entries, Head(values)),
                      Tail(values))

\* The entries parsed from the stored text.
Parsed(existing_raw) ==
    IF existing_raw.kind # "list" THEN <<>>
    ELSE AppendUnseen(<<>>, _normalize(existing_raw.items))

\* The list the call stores, from the list it starts with.
Updated(entries, add_list, remove_list) ==
    SelectSeq(AppendUnseen(entries, add_list),
              LAMBDA entry : entry \notin Range(remove_list))

\* memory_cache_index_update up to its first await.
IndexUpdateStart(c, req) ==
    LET cleaned_key == Strip(req.index_key, " ")
        replace_list == IF req.replace # None THEN _normalize(req.replace) ELSE None
        add_list == _normalize(req.add)
        remove_list == _normalize(req.remove)
        fields == [IdleCaller EXCEPT !.op = "index_update", !.key = cleaned_key,
                                     !.add_list = add_list,
                                     !.remove_list = remove_list,
                                     !.replace_list = replace_list]
    IN  /\ CanCall(c)
        /\ calls' = calls + 1
        /\ IF cleaned_key = <<>>
              \/ (replace_list = None /\ add_list = <<>> /\ remove_list = <<>>)
           THEN /\ caller' = [caller EXCEPT ![c] =
                                 [fields EXCEPT !.pc = "done", !.status = "error"]]
                /\ UNCHANGED <<_INDEX_LOCKS, _INDEX_LOCKS_COUNTS, index_lock>>
           ELSE IF replace_list # None
                THEN Enter(c, [fields EXCEPT !.entries =
                                   Updated(AppendUnseen(<<>>, replace_list),
                                           add_list, remove_list)],
                           "index_write")
                ELSE Enter(c, fields, "index_read")
        /\ UNCHANGED <<memVars, applied, cache_entries>>

\* existing_raw = await _cache_get(cleaned_key) returns, and the new list is
\* made; or _cache_get raises, and the task leaves the section.
IndexUpdateRead(c, fails) ==
    /\ caller[c].pc = "index_read"
    /\ IF fails
       THEN Exit(c, [caller[c] EXCEPT !.pc = "done", !.status = "error"])
       ELSE LET existing_raw == IF caller[c].key \in DOMAIN cache_entries
                                THEN cache_entries[caller[c].key] ELSE NoEntry
            IN  /\ caller' = [caller EXCEPT
                                 ![c].pc = "index_write",
                                 ![c].entries = Updated(Parsed(existing_raw),
                                                        caller[c].add_list,
                                                        caller[c].remove_list)]
                /\ UNCHANGED <<_INDEX_LOCKS, _INDEX_LOCKS_COUNTS, index_lock>>
    /\ UNCHANGED <<memVars, applied, cache_entries, calls>>

\* await _cache_set(cleaned_key, stored_value, ttl) returns (or raises), and
\* the task leaves the section.
IndexUpdateWrite(c, fails) ==
    /\ caller[c].pc = "index_write"
    /\ cache_entries' = IF fails THEN cache_entries
                        ELSE Put(cache_entries, caller[c].key,
                                 JsonList(caller[c].entries))
    /\ Exit(c, [caller[c] EXCEPT !.pc = "done",
                                 !.status = IF fails THEN "error" ELSE "ok"])
    /\ UNCHANGED <<memVars, applied, calls>>

\* ---- cancellation inside the section

\* The task is cancelled while it awaits asyncio.to_thread inside the section:
\* CancelledError is raised at the await and __aexit__ runs. The worker thread
\* is not stopped: a statement that it has not yet run is still to come.
CancelInside(c) ==
    /\ caller[c].pc \in InsidePcs
    /\ Exit(c, [caller[c] EXCEPT !.pc = IF caller[c].pc = "index_read" THEN "done"
                                        ELSE "thread",
                                 !.next = caller[c].pc,
                                 !.status = "cancelled"])
    /\ UNCHANGED <<memVars, applied, cache_entries, calls>>

\* The worker thread of a cancelled task runs its statement, or fails.
ThreadWrite(c, fails) ==
    /\ caller[c].pc = "thread"
    /\ cache_entries' =
           IF fails THEN cache_entries
           ELSE IF caller[c].next = "set_write"
                THEN Put(cache_entries, caller[c].key, caller[c].value)
           ELSE IF caller[c].next = "forget_delete"
                THEN Pop(cache_entries, caller[c].key)
           ELSE Put(cache_entries, caller[c].key, JsonList(caller[c].entries))
    /\ caller' = [caller EXCEPT ![c].pc = "done"]
    /\ UNCHANGED <<memVars, applied, _INDEX_LOCKS, _INDEX_LOCKS_COUNTS, index_lock,
                   calls>>

\* ---- the calls

CacheKeys == {<<"i">>, <<"j">>}
CacheValues == {JsonOther}
IndexRequests ==
    {[index_key |-> <<" ", "i">>, add |-> <<<<" ", "x">>, <<" ">>>>,
      remove |-> None, replace |-> None],
     [index_key |-> <<"i">>, add |-> <<<<"y">>>>, remove |-> <<<<"x">>>>,
      replace |-> None],
     [index_key |-> <<"i">>, add |-> None, remove |-> None,
      replace |-> <<<<"y">>, <<"y">>>>],
     [index_key |-> <<"j">>, add |-> <<<<"x">>>>, remove |-> None, replace |-> None],
     [index_key |-> <<" ">>, add |-> <<<<"x">>>>, remove |-> None, replace |-> None]}

NextCache ==
    \/ \E c \in Callers : \E key \in CacheKeys : \E value \in CacheValues :
           CacheSetStart(c, key, value)
    \/ \E c \in Callers : \E fails \in BOOLEAN : CacheSetWrite(c, fails)
    \/ \E c \in Callers : \E key \in CacheKeys : CacheForgetStart(c, key)
    \/ \E c \in Callers : \E fails \in BOOLEAN : CacheForgetDelete(c, fails)
    \/ \E c \in Callers : \E req \in IndexRequests : IndexUpdateStart(c, req)
    \/ \E c \in Callers : \E fails \in BOOLEAN : IndexUpdateRead(c, fails)
    \/ \E c \in Callers : \E fails \in BOOLEAN : IndexUpdateWrite(c, fails)
    \/ \E c \in Callers : Resume(c)
    \/ \E c \in Callers : CancelWaiting(c)
    \/ \E c \in Callers : CancelInside(c)
    \/ \E c \in Callers : \E fails \in BOOLEAN : ThreadWrite(c, fails)

SpecCache == Init /\ [][NextCache]_vars

\* ------------------------------------------------------------ a held guard

\* The cache while the first task is inside the guarded section of key "i":
\* the state in which memory_cache_set has returned from __aenter__.
InitGuard ==
    /\ mem = {}
    /\ mem_fts = {}
    /\ seq = 0
    /\ now = 0
    /\ task = [t \in Tasks |-> IdleTask]
    /\ ops = 0
    /\ _DB_READY = FALSE
    /\ _DB_READY_LOCK = "free"
    /\ thread = [w \in Threads |-> IdleThread]
    /\ applied = NotApplied
    /\ _INDEX_LOCKS = Put(EmptyDict, <<"i">>, 1)
    /\ _INDEX_LOCKS_COUNTS = Put(EmptyDict, <<"i">>, 1)
    /\ index_lock = <<[NewLock(<<"i">>) EXCEPT !._locked = TRUE]>>
    /\ caller = [c \in Callers |->
                    IF c = "c1"
                    THEN [IdleCaller EXCEPT !.op = "set", !.key = <<"i">>,
                                            !.value = JsonOther, !.lock = 1,
                                            !.pc = "set_write", !.next = "set_write"]
                    ELSE IdleCaller]
    /\ cache_entries = EmptyDict
    /\ calls = 0

\* The calls of memory_cache_set and memory_cache_forget made meanwhile.
NextGuard ==
    \/ \E c \in Callers : \E key \in CacheKeys : \E value \in CacheValues :
           CacheSetStart(c, key, value)
    \/ \E c \in Callers : \E fails \in BOOLEAN : CacheSetWrite(c, fails)
    \/ \E c \in Callers : \E key \in CacheKeys : CacheForgetStart(c, key)
    \/ \E c \in Callers : \E fails \in BOOLEAN : CacheForgetDelete(c, fails)
    \/ \E c \in Callers : Resume(c)
    \/ \E c \in Callers : CancelWaiting(c)
    \/ \E c \in Callers : CancelInside(c)
    \/ \E c \in Callers : \E fails \in BOOLEAN : ThreadWrite(c, fails)

SpecGuard == InitGuard /\ [][NextGuard]_vars

\* A step of task c inside the guarded section that is not a cancellation:
\* its storage call returns or raises, and the task leaves the section.
HolderStep(c) ==
    \/ \E fails \in BOOLEAN : CacheSetWrite(c, fails)
    \/ \E fails \in BOOLEAN : CacheForgetDelete(c, fails)

\* The event loop runs every task that is ready: the storage call of a holder
\* comes back, and a waiter whose future has its result goes on. Whether a
\* task is cancelled is up to its caller.
SpecGuardFair ==
    SpecGuard /\ \A c \in Callers : WF_vars(HolderStep(c)) /\ WF_vars(Resume(c))

\* ------------------------------------------------------------ properties

\* The records a step leaves in the table, by identity (the rowid).
RowById(m, id) == CHOOSE r \in m : r.id = id
HasId(m, id) == \E r \in m : r.id = id

\* C1: in every reachable state the full-text index holds exactly one entry per
\* record of the table, with the record's current key, value and tags_search,
\* and no entry for a record that is gone.
IndexMirrorsTable == mem_fts = {FtsEntry(r) : r \in mem}

\* C2: two memory_set calls that run concurrently, on two keys that have no
\* record, with force_new false and tags that overlap, never both succeed.
NoTwoConcurrentDuplicateSets ==
    \A s \in Tasks : \A t \in Tasks :
        ~ /\ s # t
          /\ task[s].op = "set" /\ task[t].op = "set"
          /\ task[s].pc = "done" /\ task[t].pc = "done"
          /\ task[s].result.status = "ok" /\ task[t].result.status = "ok"
          /\ ~task[s].key_exists /\ ~task[t].key_exists
          /\ ~task[s].force_new /\ ~task[t].force_new
          /\ task[s].key_norm # task[t].key_norm
          /\ Range(Split(task[s].tags_search)) \cap
                 Range(Split(task[t].tags_search)) # {}

\* A normalised key: lower-case letters, digits and single underscores inside,
\* and a fixed point of the normalisation.
IsNormalisedKey(k) ==
    /\ k # <<>>
    /\ \A i \in 1..Len(k) : k[i] \in LowerLetters \cup Digits \cup {"_"}
    /\ k[1] # "_" /\ k[Len(k)] # "_"
    /\ \A i \in 1..(Len(k) - 1) : ~(k[i] = "_" /\ k[i + 1] = "_")
    /\ _normalize_key(k) = k

\* C7: the table never holds two records with the same key, every stored key
\* is a non-empty normalised key, and a set that has written (alone or
\* concurrently with another) leaves one record under the normalisation of the
\* key it was given.
OneRecordPerNormalisedKey ==
    /\ \A r1 \in mem : \A r2 \in mem : r1.key = r2.key => r1 = r2
    /\ \A r1 \in mem : \A r2 \in mem : r1.id = r2.id => r1 = r2
    /\ \A r \in mem : IsNormalisedKey(r.key)
    /\ \A s \in Tasks : \A t \in Tasks :
           /\ task[s].op = "set" /\ task[t].op = "set"
           /\ task[s].key # <<>> /\ task[t].key # <<>>
           /\ _normalize_key(task[s].key) = _normalize_key(task[t].key)
           => /\ task[s].key_norm = task[t].key_norm
              /\ Cardinality({r \in mem : r.key = task[s].key_norm}) <= 1

\* Two sets given different spellings of one key have both written, and the
\* table holds the one record.
OneRecordPerNormalisedKey_Witness ==
    /\ task["t1"].op = "set" /\ task["t2"].op = "set"
    /\ task["t1"].pc = "done" /\ task["t2"].pc = "done"
    /\ task["t1"].result.status = "ok" /\ task["t2"].result.status = "ok"
    /\ task["t1"].key # task["t2"].key
    /\ task["t1"].key_norm = task["t2"].key_norm
    /\ Cardinality(mem) = 1

\* C8: every record's tags_search is normalize_search_text of its tags.
TagsSearchIsNormalisedTags ==
    \A r \in mem : r.tags_search = _normalize_search_text(r.tags)

\* A record whose tags were replaced by a later set: created with its key as
\* tags, updated with tags "B".
TagsSearchIsNormalisedTags_Witness ==
    \E r \in mem : /\ r.key = Text_a_b
                   /\ r.tags = Text_B
                   /\ r.tags_search = Text_b
                   /\ r.last_used_at > r.created_at

\* C9: a record keeps the created_at it was inserted with for as long as it
\* exists: no step changes it.
CreatedAtNeverChanges ==
    [][\A r \in mem : HasId(mem', r.id) =>
           RowById(mem', r.id).created_at = r.created_at]_vars

\* A record that a set has updated two days after its insertion.
CreatedAtNeverChanges_Witness ==
    \E r \in mem : /\ r.created_at = 0
                   /\ r.last_used_at = 2
                   /\ r.value = <<"e_acute">>

\* The step starts service call op as task t (a call starts on the first free
\* task, so t is the one task that can start).
Started(t, op) == ops' = ops + 1 /\ CanStart(t) /\ task'[t].op = op

\* The step is task t's storage call at pc, and the call's return after it.
Returned(t, pc) == task[t].pc = pc /\ task'[t].pc = "done"

\* The step is a forget of the row's key, or a purge.
ForgetsOrPurges(r) ==
    \E t \in Tasks :
        \/ (Started(t, "forget") /\ task'[t].key_norm = r.key)
        \/ Started(t, "purge_expired")

\* C3: a set that returns ok leaves, under the normalisation of its key, a
\* record whose value is the NFC form of the value it was given; only a set on
\* that key, a forget of it or a purge changes or removes the value; and a get
\* for any spelling that normalises to the key of a record that has not
\* expired returns ok with the record's value.
SetThenGetRoundTrip ==
    [][/\ \A t \in Tasks :
              (Returned(t, "set_write") /\ task'[t].result.status = "ok")
              => /\ task[t].key_norm = _normalize_key(task[t].key)
                 /\ HasKey(mem', task[t].key_norm)
                 /\ RowOf(mem', task[t].key_norm).value = NFC(task[t].value)
                 /\ task'[t].result.value = NFC(task[t].value)
       /\ \A r \in mem :
              (~HasId(mem', r.id) \/ RowById(mem', r.id).value # r.value)
              => \/ ForgetsOrPurges(r)
                 \/ \E t \in Tasks :
                        Returned(t, "set_write") /\ task[t].key_norm = r.key
       /\ \A t \in Tasks : \A r \in mem :
              (/\ Started(t, "get")
               /\ _normalize_key(task'[t].key) = r.key
               /\ ~(r.expires_at # NoTime /\ now > r.expires_at))
              => /\ task'[t].pc = "get_update"
                 /\ task'[t].row = <<r>>
       /\ \A t \in Tasks :
              Returned(t, "get_update")
              => /\ task'[t].result.status = "ok"
                 /\ task'[t].result.value = task[t].row[1].value
                 /\ task'[t].result.key = task[t].row[1].key
      ]_vars

\* A get by the spelling "a_b" has returned ok with the value of the record
\* that a set by the spelling "A b" created.
SetThenGetRoundTrip_Witness ==
    \E t \in Tasks : \E r \in mem :
        /\ task[t].op = "get" /\ task[t].pc = "done"
        /\ task[t].key = Text_a_b
        /\ task[t].result.status = "ok"
        /\ task[t].result.value = Text_v
        /\ r.key = Text_a_b /\ r.tags = Text_Ab /\ r.value = Text_v

\* C4: a get on a record whose expiry has passed returns status expired with
\* the stored value and fields and changes nothing in the store; the record
\* stays until a forget or a purge removes it.
ExpiredGetLeavesStore ==
    [][/\ \A t \in Tasks : \A r \in mem :
              (/\ Started(t, "get")
               /\ _normalize_key(task'[t].key) = r.key
               /\ r.expires_at # NoTime
               /\ now > r.expires_at)
              => /\ task'[t].pc = "done"
                 /\ task'[t].result.status = "expired"
                 /\ task'[t].result.value = r.value
                 /\ task'[t].result.row = <<r>>
                 /\ mem' = mem /\ mem_fts' = mem_fts /\ seq' = seq
       /\ \A r \in mem : ~HasId(mem', r.id) => ForgetsOrPurges(r)
      ]_vars

\* A get has returned expired for a record that is still in the table, as it
\* was read.
ExpiredGetLeavesStore_Witness ==
    \E t \in Tasks :
        /\ task[t].op = "get" /\ task[t].pc = "done"
        /\ task[t].result.status = "expired"
        /\ task[t].result.row # <<>>
        /\ task[t].result.row[1] \in mem
        /\ now > task[t].result.row[1].expires_at

\* C6: where a set on a key without a record finds duplicates, force_new
\* false is rejected and force_new true goes on to write; the write returns ok
\* with force_new_applied true, creates the record and leaves every other
\* record as it was. force_new_applied is true only when duplicates were found
\* and overridden.
ForceNewOverridesDuplicates ==
    [][\A t \in Tasks :
          /\ (/\ task[t].pc = "set_duplicates"
              /\ task'[t] # task[t]
              /\ task'[t].matches # <<>>
              /\ ~task[t].key_exists)
             => IF task[t].force_new
                THEN task'[t].pc = "set_write" /\ task'[t].forced_duplicate_override
                ELSE /\ task'[t].pc = "done"
                     /\ task'[t].result.error = "duplicate_tags"
                     /\ UNCHANGED <<mem, mem_fts, seq>>
          /\ (/\ Returned(t, "set_write")
              /\ task[t].forced_duplicate_override
              /\ ~HasKey(mem, task[t].key_norm))
             => /\ task'[t].result.status = "ok"
                /\ task'[t].result.force_new_applied
                /\ task'[t].result.matches = task[t].matches
                /\ HasKey(mem', task[t].key_norm)
                /\ mem \subseteq mem'
                /\ Cardinality(mem') = Cardinality(mem) + 1
          /\ (Returned(t, "set_write") /\ task'[t].result.force_new_applied)
             => /\ task[t].force_new
                /\ task[t].matches # <<>>
                /\ ~task[t].key_exists
      ]_vars

\* A set with force_new has been applied over a match, and the matched record
\* is in the table beside the new one.
ForceNewOverridesDuplicates_Witness ==
    \E t \in Tasks :
        /\ task[t].op = "set" /\ task[t].pc = "done"
        /\ task[t].result.status = "ok"
        /\ task[t].result.force_new_applied
        /\ Len(task[t].result.matches) = 1
        /\ HasKey(mem, task[t].result.matches[1].key)
        /\ HasKey(mem, task[t].key_norm)
        /\ Cardinality(mem) = 2

\* C10: a record's last_used_at never decreases, and is never earlier than its
\* created_at.
LastUsedAtNeverDecreases ==
    [][/\ \A r \in mem' : r.last_used_at >= r.created_at
       /\ \A r \in mem : HasId(mem', r.id) =>
              RowById(mem', r.id).last_used_at >= r.last_used_at
      ]_vars

\* C5: a set with force_new false on a key without a record, when the tags of
\* a stored record are the new tags, is rejected with the error duplicate_tags
\* and at least one match, and writes nothing, whatever else is stored.
DuplicateTagsAreRejected ==
    [][\A t \in Tasks :
          (/\ task[t].pc = "set_duplicates"
           /\ task'[t] # task[t]
           /\ ~task[t].force_new
           /\ ~HasKey(mem, task[t].key_norm)
           /\ \E r \in mem : Range(Split(r.tags_search)) =
                                 Range(Split(task[t].tags_search)))
          => /\ task'[t].pc = "done"
             /\ task'[t].result.status = "error"
             /\ task'[t].result.error = "duplicate_tags"
             /\ Len(task'[t].result.matches) >= 1
             /\ UNCHANGED <<mem, mem_fts, seq>>
      ]_vars

\* The rows a purge with the grace it was given has to remove: those that
\* expired before now minus the grace, the grace held in 0..365 days.
DueForPurge(m, grace_days, t) ==
    {r \in m : /\ r.expires_at # NoTime
               /\ r.expires_at < t - Min(Max(grace_days, 0), HOUSEKEEPING_GRACE_MAX_DAYS)}

\* C11: purge_expired(grace_days) removes exactly the records whose expires_at
\* is earlier than now minus the grace (the grace held in 0..365) and reports
\* their number; a record that has not expired or is within the grace stays.
PurgeRemovesExactlyTheExpired ==
    [][\A t \in Tasks :
          Started(t, "purge_expired")
          => /\ mem' = mem \ DueForPurge(mem, task'[t].grace_days, now)
             /\ task'[t].result.status = "ok"
             /\ task'[t].result.count =
                    Cardinality(DueForPurge(mem, task'[t].grace_days, now))]_vars

\* The step is the write of a set on the row's key with an expiration that is
\* not zero.
SetsExpiration(r) ==
    \E t \in Tasks : /\ Returned(t, "set_write")
                     /\ task[t].key_norm = r.key
                     /\ task[t].expires_at # NoTime

\* C12: a record written with expiration_days 0 has no expires_at; a get of a
\* record without expires_at is never answered expired; no purge, whatever its
\* grace, and no daily housekeeping removes it; only a forget of its key
\* removes it and only a set with an expiration that is not zero gives it an
\* expires_at.
NoExpirationNeverExpires ==
    [][/\ \A t \in Tasks :
              (/\ Returned(t, "set_write")
               /\ task'[t].result.status = "ok"
               /\ task[t].expiration_days = 0)
              => RowOf(mem', task[t].key_norm).expires_at = NoTime
       /\ \A r \in mem :
              r.expires_at = NoTime
              => /\ \A t \in Tasks :
                        (Started(t, "get") /\ task'[t].key_norm = r.key)
                        => task'[t].result.status # "expired"
                 /\ \A t \in Tasks : Started(t, "purge_expired") => r \in mem'
                 /\ ~HasId(mem', r.id)
                        => \E t \in Tasks : /\ Started(t, "forget")
                                             /\ task'[t].key_norm = r.key
                 /\ (HasId(mem', r.id) /\ RowById(mem', r.id).expires_at # NoTime)
                        => SetsExpiration(r)]_vars

\* Two days on, a purge without grace has removed the record that expired and
\* left the record that has no expires_at, created at time 0.
NoExpirationNeverExpires_Witness ==
    /\ now = 2
    /\ \E t \in Tasks : /\ task[t].op = "purge_expired" /\ task[t].pc = "done"
                        /\ task[t].grace_days = 0
                        /\ task[t].result.status = "ok"
                        /\ task[t].result.count = 1
    /\ \E r \in mem : r.expires_at = NoTime /\ r.created_at = 0
    /\ \A r \in mem : r.expires_at = NoTime

\* The record shares a tag with the text looked up.
TagSimilar(text, r) ==
    Range(Split(_normalize_tags(text))) \cap Range(Split(r.tags_search)) # {}

\* C13: a get or forget of a key that has no record answers error ambiguous
\* with suggestions whenever a record (of another key) shares a tag with the
\* text looked up, and not_found without suggestions otherwise; the store is
\* left as it was.
MissingKeyIsAmbiguousOrNotFound ==
    [][\A t \in Tasks :
          (Returned(t, "get_suggest") \/ Returned(t, "forget_suggest"))
          => /\ task'[t].result.status = "error"
             /\ IF \E r \in mem : r.key # task[t].key_norm /\ TagSimilar(task[t].key, r)
                THEN /\ task'[t].result.error = "ambiguous"
                     /\ task'[t].result.matches # <<>>
                ELSE /\ task'[t].result.error = "not_found"
                     /\ task'[t].result.matches = <<>>
             /\ mem' = mem /\ mem_fts' = mem_fts]_vars

\* C14: a forget of a key that has a record, expired or not, deletes exactly
\* that record, from the table and from the index, and answers ok with
\* deleted = 1; the other records stay as they were; and a get answers ok or
\* expired only for a key that has a record when it reads.
ForgetDeletesExactlyTheRecord ==
    [][\A t \in Tasks :
          /\ (Started(t, "forget") /\ HasKey(mem, task'[t].key_norm))
             => /\ task'[t].key_norm = _normalize_key(task'[t].key)
                /\ mem' = mem \ {RowOf(mem, task'[t].key_norm)}
                /\ \A e \in mem_fts' : e.key # task'[t].key_norm
                /\ task'[t].result.status = "ok"
                /\ task'[t].result.count = 1
          /\ (Started(t, "get") /\ ~HasKey(mem, task'[t].key_norm))
             => task'[t].result.status \notin {"ok", "expired"}]_vars

\* C15: memory_reindex_fts leaves the table as it was; its rebuild leaves the
\* index with one entry per record and no entry without a record; and the
\* count it returns is the number of records in the table.
ReindexCountsTheTable ==
    [][\A t \in Tasks :
          /\ Started(t, "reindex_fts") => mem' = mem
          /\ Returned(t, "reindex_rebuild")
             => /\ mem' = mem
                /\ task'[t].result.status = "ok"
                /\ task'[t].result.count = Cardinality(mem')
                /\ mem_fts' = {FtsEntry(r) : r \in mem'}
                /\ \A e \in mem_fts' : HasId(mem', e.rowid)]_vars

\* A reindex has returned after a forget removed one of the two records: it
\* counted the one record that is left, and the index holds its entry.
ReindexCountsTheTable_Witness ==
    /\ \E t \in Tasks : /\ task[t].op = "reindex_fts" /\ task[t].pc = "done"
                        /\ task[t].before = 1
                        /\ task[t].result.status = "ok"
                        /\ task[t].result.count = 1
    /\ Cardinality(mem) = 1
    /\ Cardinality(mem_fts) = 1

\* The step rejects the call task t starts: it returns an error with a code,
\* and neither the store nor the readiness flag has changed.
Rejected(t) ==
    /\ task'[t].pc = "done"
    /\ task'[t].result.status = "error"
    /\ task'[t].result.error # ""
    /\ mem' = mem /\ mem_fts' = mem_fts /\ seq' = seq
    /\ _DB_READY' = _DB_READY

\* C16: a set whose key is missing or normalises to nothing, or whose value is
\* missing or empty, and a get or forget whose key is missing or normalises to
\* nothing, is rejected with an error before any storage access.
MissingArgumentsAreRejected ==
    [][\A t \in Tasks :
          /\ (/\ Started(t, "set")
              /\ \/ _normalize_key(task'[t].key) = <<>>
                 \/ task'[t].value = None
                 \/ task'[t].value = <<>>)
             => Rejected(t)
          /\ (/\ Started(t, "get") \/ Started(t, "forget")
              /\ _normalize_key(task'[t].key) = <<>>)
             => Rejected(t)]_vars

\* The value is outside lo..hi.
OutOfRange(value, lo, hi) == value < lo \/ value > hi

\* The value, or the end of lo..hi it lies beyond.
Clamped(value, lo, hi) == IF value < lo THEN lo ELSE IF value > hi THEN hi ELSE value

\* C17 as stated: a search limit, a purge grace or a set expiration outside its
\* range is rejected with an error before the storage is touched.
OutOfRangeIsRejected ==
    [][\A t \in Tasks :
          /\ (/\ Started(t, "search")
              /\ OutOfRange(task'[t].limit, 1, SEARCH_LIMIT_MAX))
             => Rejected(t)
          /\ (/\ Started(t, "purge_expired")
              /\ OutOfRange(task'[t].grace_days, 0, HOUSEKEEPING_GRACE_MAX_DAYS))
             => Rejected(t)
          /\ (/\ Started(t, "set")
              /\ OutOfRange(task'[t].expiration_days, 0, EXPIRATION_MAX_DAYS))
             => Rejected(t)]_vars

\* C17: a search limit, a purge grace or a set expiration outside its range is
\* not rejected: the call runs with the nearest value of the range. The search
\* returns ok with at most that many matches; the purge reports that grace and
\* removes what is due under it, or fails on the index and removes nothing;
\* the set goes on to the storage with the expires_at of that many days.
OutOfRangeIsClamped ==
    [][\A t \in Tasks :
          /\ (Started(t, "search") /\ task'[t].query \notin {<<>>, None})
             => /\ task'[t].lim = Clamped(task'[t].limit, 1, SEARCH_LIMIT_MAX)
                /\ task'[t].result.status = "ok"
                /\ Len(task'[t].result.matches) <= task'[t].lim
          /\ Started(t, "purge_expired")
             => /\ task'[t].result.grace_days =
                       Clamped(task'[t].grace_days, 0, HOUSEKEEPING_GRACE_MAX_DAYS)
                /\ \/ /\ task'[t].result.status = "ok"
                      /\ mem' = mem \ DueForPurge(mem, task'[t].result.grace_days, now)
                   \/ /\ task'[t].result.error = DatabaseErrorText
                      /\ mem' = mem
          /\ (/\ Started(t, "set")
              /\ _normalize_key(task'[t].key) # <<>>
              /\ task'[t].value # None)
             => /\ task'[t].pc = "set_key_exists"
                /\ LET days == Clamped(task'[t].expiration_days, 0, EXPIRATION_MAX_DAYS)
                   IN  task'[t].expires_at = IF days = 0 THEN NoTime ELSE now + days]_vars

\* A set with an expiration of 3651 days has written a record that expires in
\* 3650 days, and a purge with a grace of -1 has run with a grace of 0.
OutOfRangeIsClamped_Witness ==
    /\ task["t1"].op = "set" /\ task["t1"].pc = "done"
    /\ task["t1"].expiration_days = EXPIRATION_MAX_DAYS + 1
    /\ task["t1"].result.status = "ok"
    /\ RowOf(mem, task["t1"].key_norm).expires_at =
           task["t1"].now_iso + EXPIRATION_MAX_DAYS
    /\ task["t2"].op = "purge_expired" /\ task["t2"].pc = "done"
    /\ task["t2"].grace_days = -1
    /\ task["t2"].result.status = "ok"
    /\ task["t2"].result.grace_days = 0

\* The step is a storage call of task t that failed: the call has left the
\* readiness flag false.
StorageCallFailed(t) ==
    /\ ~_DB_READY'
    /\ task'[t] # task[t]
    /\ \/ task[t].pc \in {"set_key_exists", "set_duplicates", "set_write",
                           "get_suggest", "forget_suggest"}
       \/ /\ \E op \in {"get", "forget", "purge_expired", "reindex_fts",
                          "search", "health"} : Started(t, op)
          /\ task'[t].result.error \notin {"key_missing", "query_missing"}

\* C18: no service call lets a storage failure escape. A call whose storage
\* call fails on every attempt returns status error with the text of the
\* exception; a get or forget whose suggestion lookup fails returns not_found
\* without suggestions; a set whose duplicate lookup fails goes on to its
\* write without duplicates. No call ever ends without a response.
StorageFailureNeverEscapes ==
    [][\A t \in Tasks :
          /\ task'[t].result.status \in {"none", "ok", "expired", "error"}
          /\ StorageCallFailed(t)
             => \/ /\ task[t].pc \notin {"set_duplicates", "get_suggest",
                                          "forget_suggest"}
                   /\ task'[t].pc = "done"
                   /\ task'[t].result.status = "error"
                   /\ task'[t].result.error = OperationalErrorText
                \/ /\ task[t].pc \in {"get_suggest", "forget_suggest"}
                   /\ task'[t].pc = "done"
                   /\ task'[t].result.status = "error"
                   /\ task'[t].result.error = "not_found"
                   /\ task'[t].result.matches = <<>>
                \/ /\ task[t].pc = "set_duplicates"
                   /\ task'[t].pc = "set_write"
                   /\ task'[t].matches = <<>>]_vars

\* A set has written a record with tag b; a concurrent get of "b", whose
\* suggestion lookup failed, has answered not_found.
StorageFailureNeverEscapes_Witness ==
    /\ ~_DB_READY
    /\ \E t \in Tasks : /\ task[t].op = "get" /\ task[t].pc = "done"
                        /\ task[t].result.error = "not_found"
                        /\ \E r \in mem : TagSimilar(task[t].key, r)
    /\ \E t \in Tasks : /\ task[t].op = "set" /\ task[t].pc = "done"
                        /\ task[t].result.status = "ok"

RetryRunsSchemaSetup ==
    \A w \in Threads :
        (thread[w].pc = "statement" /\ thread[w].attempt = 1) => thread[w].setup

\* C21: schema setup is never run by two threads at the same time; a call
\* without force that finds the flag set and the file in place runs no schema
\* setup; and the flag is only ever set by a thread whose schema setup has
\* returned and has not been followed by a clearing of the flag.
SetupOnceAndSafe ==
    [][/\ Cardinality({w \in Threads : thread'[w].pc \in {"ensure_db", "ensure_ready"}}) <= 1
       /\ \A w \in Threads :
              /\ (/\ thread[w].pc \in {"ensure_check", "ensure_acquire"}
                  /\ thread'[w].pc # thread[w].pc
                  /\ ~thread[w].force /\ _DB_READY /\ thread'[w].exists)
                 => thread'[w].pc = "statement" /\ ~thread'[w].setup
              /\ (~_DB_READY /\ _DB_READY')
                 => \E v \in Threads : /\ thread[v].pc = "ensure_ready"
                                        /\ thread'[v].pc = "statement"
                                        /\ thread[v].setup
                                        /\ ~thread[v].stale]_vars

\* C25: normalisation is idempotent: normalize_key of a normalised key is that
\* key, and normalize_search_text of a normalised text is that text.
NormalisationIsIdempotent ==
    (/\ applied.fn \in {"_normalize_key", "_normalize_search_text"}
     /\ Len(applied.out) = 2)
    => applied.out[2] = applied.out[1]

\* Both functions have been applied twice to a text that they change.
NormalisationIsIdempotent_Witness ==
    /\ applied.input = <<"A", ",", "e_acute">>
    /\ Len(applied.out) = 2
    /\ applied.out[1] \in {<<"a", "_", "e">>, <<"a", " ", "e">>}
    /\ applied.out[2] = applied.out[1]

\* The six variants of the planner in their stated order, as texts, for the
\* tokens of a query: those that apply only.
PlannedTexts(raw) ==
    LET normalised == _normalize_search_text(raw)
        tokens == Split(normalised)
        many == Len(tokens) >= 2
        some == Len(tokens) >= 1
        words == Join(tokens, <<" ">>)
    IN  (IF many THEN <<(<<"\"">> \o words \o <<"\"">>)>> ELSE <<>>)
        \o (IF many
            THEN <<(<<"N", "E", "A", "R", "(">> \o words \o <<",", " ">>
                    \o DigitText(_near_distance_for_tokens(Len(tokens))) \o <<")">>)>>
            ELSE <<>>)
        \o (IF many THEN <<Join(tokens, <<" ", "A", "N", "D", " ">>)>>
            ELSE IF some THEN <<tokens[1]>> ELSE <<>>)
        \o (IF some
            THEN <<Join([i \in 1..Len(tokens) |-> tokens[i] \o <<"*">>],
                        <<" ", "O", "R", " ">>)>>
            ELSE <<>>)
        \o (IF normalised # <<>> THEN <<normalised>> ELSE <<>>)
        \o (IF Strip(raw, " ") # <<>> THEN <<Strip(raw, " ")>> ELSE <<>>)

\* The positions of a list that hold a text for the first time.
FirstSeen(list) == {i \in 1..Len(list) : \A j \in 1..(i - 1) : list[j] # list[i]}

\* C30: the planner returns the variants in the fixed order phrase, proximity,
\* conjunction (or the single token), prefix disjunction, normalised query,
\* trimmed raw query; without duplicates, each text at its first position; and
\* the list is empty only for an empty or all-whitespace query.
PlannerOrderIsFixed ==
    (applied.fn = "_build_fts_queries")
    => LET out == applied.out[1]
           planned == PlannedTexts(applied.input)
       IN  /\ \A i, j \in 1..Len(out) : out[i] = out[j] => i = j
           /\ Len(out) = Cardinality(FirstSeen(planned))
           /\ \A k \in 1..Len(out) :
                  \E i \in FirstSeen(planned) :
                      /\ out[k] = planned[i]
                      /\ Cardinality({j \in FirstSeen(planned) : j < i}) = k - 1
           /\ (out = <<>>) => (Strip(applied.input, " ") = <<>>)

\* A query of two tokens, one a capital, got all six variants.
PlannerOrderIsFixed_Witness ==
    /\ applied.fn = "_build_fts_queries"
    /\ applied.input = <<"A", " ", "b">>
    /\ Len(applied.out[1]) = 6
    /\ applied.out[1][1] = <<"\"", "a", " ", "b", "\"">>
    /\ applied.out[1][3] = <<"a", " ", "A", "N", "D", " ", "b">>
    /\ applied.out[1][5] = <<"a", " ", "b">>
    /\ applied.out[1][6] = <<"A", " ", "b">>

\* C26: a record whose match score is exactly 0 is never returned: not among
\* the results of search, nor among the duplicate-tag candidates of set, nor
\* among the suggestions of get and forget.
ZeroScoreIsExcluded ==
    \A t \in Tasks :
        (task[t].pc = "done" /\ task[t].op \in {"search", "set", "get", "forget"})
        => \A i \in 1..Len(task[t].result.matches) :
               task[t].result.matches[i].match_score[1] # 0

\* The place in the planner's list of the first variant that matches the
\* stored record of a key, 0 when no variant does.
FirstVariant(query, key) ==
    LET variants == _build_fts_queries(query)
        hits == {i \in 1..Len(variants) :
                    /\ VariantWellFormed(variants[i])
                    /\ \E r \in mem : \E e \in mem_fts :
                           r.key = key /\ e.rowid = r.id /\ FtsMatch(variants[i], e)}
    IN  IF hits = {} THEN 0 ELSE CHOOSE i \in hits : \A j \in hits : i <= j

\* The search that the step runs as task t returns ok with these results.
SearchReturns(t, results) ==
    /\ Started(t, "search")
    /\ task'[t].result.status = "ok"
    /\ results = task'[t].result.matches

\* C27: search returns a ranked list: a record matched by a more precise
\* variant stands at or above every record matched only by broader variants,
\* and the match scores of the list never increase.
SearchIsRanked ==
    [][\A t \in Tasks :
          \A results \in {task'[t].result.matches} :
              SearchReturns(t, results)
              => \A i, j \in 1..Len(results) :
                     i < j
                     => /\ FirstVariant(task'[t].query, results[i].key)
                           <= FirstVariant(task'[t].query, results[j].key)
                        /\ ~ScoreGreater(results[j].match_score,
                                         results[i].match_score)]_vars

\* C28: search returns at most min(max(limit, 1), 50) results and no key
\* twice; the variants run in order and no variant runs once that many keys
\* are found: a record first matched by a variant is returned only with every
\* record that an earlier variant matches.
SearchIsBoundedAndDistinct ==
    [][\A t \in Tasks :
          \A results \in {task'[t].result.matches} :
              SearchReturns(t, results)
              => LET limit == task'[t].limit
                     most == IF limit < 1 THEN 1
                             ELSE IF limit > SEARCH_LIMIT_MAX THEN SEARCH_LIMIT_MAX
                             ELSE limit
                     query == task'[t].query
                     returned == {results[i].key : i \in 1..Len(results)}
                 IN  /\ Len(results) <= most
                     /\ \A i, j \in 1..Len(results) :
                            results[i].key = results[j].key => i = j
                     /\ \A k \in returned :
                            \A r \in mem :
                                (/\ FirstVariant(query, r.key) > 0
                                 /\ FirstVariant(query, r.key) < FirstVariant(query, k))
                                => r.key \in returned]_vars

\* A search for two words with limit 3 returned three records: the two that
\* the phrase matched, found again by every later variant, and the one that
\* the disjunction added.
SearchIsBoundedAndDistinct_Witness ==
    \E t \in Tasks :
        /\ task[t].pc = "done" /\ task[t].op = "search"
        /\ task[t].query = Text_a_sp_b /\ task[t].limit = 3
        /\ task[t].result.count = 3
        /\ {task[t].result.matches[i].key : i \in 1..3} = {<<"p">>, <<"n", "o">>, <<"t">>}
        /\ mem = SearchedRows

\* The task is inside the guarded section of its key.
Inside(c) == caller[c].pc \in InsidePcs

\* C22: the keyed lock excludes: at most one task is inside the guarded
\* section of a key at a time, also when the registry entry of the key was
\* removed and made again between two holders.
KeyedLockExcludes ==
    \A c, d \in Callers :
        (c # d /\ Inside(c) /\ Inside(d)) => caller[c].key # caller[d].key

\* A task is inside the section of a key under the second lock object, the
\* first one having been made for the same key and removed.
KeyedLockExcludes_Witness ==
    \E c \in Callers :
        /\ Inside(c)
        /\ caller[c].lock = 2
        /\ index_lock[1].key = caller[c].key
        /\ _INDEX_LOCKS[caller[c].key] = 2

\* C23: once every task that asked for the guard of a key has left it, the
\* registry holds neither a lock nor a count for the key.
RegistryIsReleased ==
    \A k \in CacheKeys :
        (\A c \in Callers :
            ~(caller[c].key = k /\ (Inside(c) \/ caller[c].pc = "waiting")))
        => (k \notin DOMAIN _INDEX_LOCKS /\ k \notin DOMAIN _INDEX_LOCKS_COUNTS)

\* The task waits in acquire() and its future has no result yet.
Queued(c) ==
    /\ caller[c].pc = "waiting"
    /\ \E i \in 1..Len(index_lock[caller[c].lock]._waiters) :
           /\ index_lock[caller[c].lock]._waiters[i].caller = c
           /\ ~index_lock[caller[c].lock]._waiters[i].done

\* Task d stands before task c in the queue of the lock that c waits for.
Ahead(d, c) ==
    LET waiters == index_lock[caller[c].lock]._waiters
    IN  \E i, j \in 1..Len(waiters) :
            i < j /\ waiters[i].caller = d /\ waiters[j].caller = c

\* C24: the guard is per key: a task is kept waiting only while another task
\* holds the guard of the same key or waits for it ahead of the task; never by
\* the tasks of a different key.
GuardIsPerKey ==
    \A c \in Callers :
        Queued(c)
        => \E d \in Callers \ {c} :
               /\ caller[d].key = caller[c].key
               /\ (Inside(d) \/ (caller[d].pc = "waiting" /\ Ahead(d, c)))

\* Two tasks are inside the sections of two keys at once, the second having
\* entered while the first was inside.
GuardIsPerKey_Witness ==
    /\ Inside("c1") /\ Inside("c2")
    /\ caller["c1"].key # caller["c2"].key
    /\ caller["c1"].lock = 1 /\ caller["c2"].lock = 2

\* The list that an index update makes of the entry stored now.
UpdateOfStored(c) ==
    LET key == caller[c].key
        stored == IF key \in DOMAIN cache_entries THEN cache_entries[key] ELSE NoEntry
    IN  Updated(IF caller[c].replace_list # None
                THEN AppendUnseen(<<>>, caller[c].replace_list)
                ELSE Parsed(stored),
                caller[c].add_list, caller[c].remove_list)

\* C29: an index update is atomic per key: its write is made inside the guard
\* of the key and stores the update of the list that is stored at that
\* moment, so that no update made in between is lost.
IndexUpdateIsAtomic ==
    [][\A c \in Callers :
          (/\ caller[c].op = "index_update"
           /\ caller'[c] # caller[c]
           /\ cache_entries' # cache_entries)
          => /\ caller[c].pc = "index_write"
             /\ cache_entries'[caller[c].key] = JsonList(UpdateOfStored(c))]_vars

\* The number of tokens of the query that the functions were applied to.
TokenCount == Len(Split(applied.input))

\* The text is a proximity variant.
IsNear(text) == Len(text) >= 5 /\ SubSeq(text, 1, 5) = <<"N", "E", "A", "R", "(">>

\* C31: for a query of n tokens the proximity window is 3 for n = 2 and 5 for
\* every n >= 3, and the planner's proximity variant ends with it; for n <= 1
\* the distance is 0 and the planner makes no proximity variant.
WindowIsClamped ==
    LET n == TokenCount
        window == IF n <= 1 THEN 0 ELSE IF n = 2 THEN 3 ELSE 5
    IN  /\ (applied.fn = "_near_distance_for_tokens") => applied.out[1] = window
        /\ (applied.fn = "_build_fts_queries")
           => LET out == applied.out[1]
                  near == {i \in 1..Len(out) : IsNear(out[i])}
              IN  IF n <= 1 THEN near = {}
                  ELSE /\ near = {2}
                       /\ SubSeq(out[2], Len(out[2]) - 3, Len(out[2]))
                              = <<",", " ">> \o DigitText(window) \o <<")">>

\* The window of a query of four tokens was computed, and is 5.
WindowIsClamped_Witness ==
    /\ applied.fn = "_near_distance_for_tokens"
    /\ applied.input = <<"a", " ", "b", " ", "c", " ", "a">>
    /\ applied.out = <<5>>

\* The stored record of a key.
Stored(key) == CHOOSE r \in mem : r.key = key

\* C32: the substring fallback of search runs only when no variant found a
\* row in the index, and then it returns only records that hold the
\* normalised query as a substring of their key, tags or normalised tags.
FallbackMatchesKeyAndTags ==
    [][\A t \in Tasks :
          \A results \in {task'[t].result.matches} :
              SearchReturns(t, results)
              => LET query == task'[t].query
                     q == _normalize_search_text(query)
                     indexed == \E r \in mem : FirstVariant(query, r.key) > 0
                 IN  \A i \in 1..Len(results) :
                         IF indexed THEN FirstVariant(query, results[i].key) > 0
                         ELSE \/ Like(Stored(results[i].key).key, q)
                              \/ Like(Stored(results[i].key).tags, q)
                              \/ Like(Stored(results[i].key).tags_search, q)]_vars

\* Two fractions are the same number.
SameNumber(a, b) == a[1] * b[2] = b[1] * a[2]

\* C33: the Jaccard term is |intersection| / |union| of the two token sets,
\* and 0 when one is empty or they are disjoint; with a rank the score is
\* 1/2 * 1 / (1 + max(rank, 0)) + 1/2 * Jaccard, without one the Jaccard term.
ScoreIsTheBlend ==
    (applied.fn = "_calculate_match_score")
    => LET source == applied.input.source_tokens
           candidate == applied.input.candidate_tokens
           rank == applied.input.bm25_raw
           jaccard == IF source = {} \/ candidate = {} \/ source \cap candidate = {}
                      THEN <<0, 1>>
                      ELSE <<Cardinality(source \cap candidate),
                             Cardinality(source \cup candidate)>>
           lexical == IF rank = NoRank THEN <<0, 1>>
                      ELSE <<1, 1 + (IF rank[1] > 0 THEN rank[1] ELSE 0)>>
           blend == <<lexical[1] * jaccard[2] + jaccard[1] * lexical[2],
                      2 * lexical[2] * jaccard[2]>>
       IN  SameNumber(applied.out[1], IF rank = NoRank THEN jaccard ELSE blend)

\* C34: whenever a set answers with a successful response, the key_exists of
\* the response is TRUE exactly when the write updated a record that was in
\* the table and FALSE exactly when the write created the record, also when
\* several sets of the same new key run concurrently.
KeyExistsTellsUpdateFromInsert ==
    [][\A t \in Tasks :
          (Returned(t, "set_write") /\ task'[t].result.status = "ok")
          => (task'[t].result.key_exists <=> HasKey(mem, task[t].key_norm))]_vars

\* C35: schema recovery preserves the consistency of index and table: when
\* the index is missing and the forced schema setup of a retry creates it
\* again, the index holds the projection of every record of the table once
\* the retried operation has returned.
RecoveryRestoresIndex ==
    [][(mem_fts = NoSuchTable /\ mem_fts' # NoSuchTable)
       => mem_fts' = Rebuild(mem')]_vars

\* A step of a call of memory_get.
GetStep(t) == task'[t] # task[t] /\ task'[t].op = "get"

\* C36: a get that runs concurrently with a set or a forget of its key never
\* changes the value, scope, tags, created_at or expires_at of a record and
\* never creates a record again that was deleted: every step of a get leaves
\* the index alone and the table with the same records, of which at most the
\* last_used_at of the record of its key, if there is one, is new.
GetWritesOnlyLastUsed ==
    [][\A t \in Tasks :
          GetStep(t)
          => /\ mem_fts' = mem_fts
             /\ Cardinality(mem') = Cardinality(mem)
             /\ \A r \in mem :
                   \E r2 \in mem' :
                      /\ [r2 EXCEPT !.last_used_at = r.last_used_at] = r
                      /\ r.key # task'[t].key_norm => r2 = r]_vars

\* A get has answered ok although a forget, started after the get had read
\* the record, deleted it before the get wrote: the record is still gone.
GetWritesOnlyLastUsed_Witness ==
    /\ task["t1"].op = "get" /\ task["t1"].result.status = "ok"
    /\ task["t2"].op = "forget" /\ task["t2"].result.status = "ok"
    /\ task["t2"].key_norm = task["t1"].key_norm
    /\ mem # {}
    /\ ~HasKey(mem, task["t1"].key_norm)

\* A step of a call that only reads: a search, a health check, the check of
\* a set for its key, the step that rejects a set with duplicate_tags, and
\* the steps of a get or a forget that ends in not_found or ambiguous.
ReadOnlyStep(t) ==
    /\ task'[t] # task[t]
    /\ \/ task'[t].op \in {"search", "health"}
       \/ task'[t].op = "set" /\ task[t].pc = "set_key_exists"
       \/ task'[t].op = "set" /\ task'[t].result.error = "duplicate_tags"
       \/ /\ task'[t].op \in {"get", "forget"}
          /\ \/ task'[t].pc \in {"get_suggest", "forget_suggest"}
             \/ task'[t].result.error \in {"not_found", "ambiguous"}

\* C37: a search, a health check, the key-existence check of a set, a set
\* rejected with duplicate_tags, and a get or a forget that ends in not_found
\* or ambiguous leave every record of the table and of the index unchanged.
ReadOnlyStepsLeaveStore ==
    [][\A t \in Tasks : ReadOnlyStep(t) => mem' = mem /\ mem_fts' = mem_fts]_vars

\* On a store that holds a record, a set was rejected with duplicate_tags and
\* the record is still there, in the table and in the index.
ReadOnlyStepsLeaveStore_Witness ==
    \E t \in Tasks :
        /\ task[t].op = "set"
        /\ task[t].result.error = "duplicate_tags"
        /\ mem # {}
        /\ mem_fts = Rebuild(mem)

\* A step in which a storage call of task t raises a storage error, which
\* the service call reports to its caller.
StorageErrorStep(t) ==
    /\ task'[t] # task[t]
    /\ task'[t].result.status = "error"
    /\ task'[t].result.error \in {OperationalErrorText, DatabaseErrorText}

\* C38: whenever a storage operation propagates a storage error to its
\* caller, the readiness flag is false at that moment, so that the next
\* storage operation runs the schema setup before it touches the store.
StorageErrorClearsReadiness ==
    [][\A t \in Tasks : StorageErrorStep(t) => ~_DB_READY']_vars

\* The tasks that hold the guard of a key or wait for it.
GuardTasks(key) ==
    {c \in Callers : caller[c].key = key /\ (Inside(c) \/ caller[c].pc = "waiting")}

\* C40: in every reachable state of the registry a key has a lock object
\* exactly when it has a reference count, the count is at least 1 and is the
\* number of tasks that hold the guard of the key or wait for it, and all of
\* those tasks have the lock object of the registry.
RegistryCountsItsTasks ==
    /\ DOMAIN _INDEX_LOCKS = DOMAIN _INDEX_LOCKS_COUNTS
    /\ \A key \in DOMAIN _INDEX_LOCKS :
          /\ _INDEX_LOCKS_COUNTS[key] >= 1
          /\ _INDEX_LOCKS_COUNTS[key] = Cardinality(GuardTasks(key))
          /\ \A c \in GuardTasks(key) : caller[c].lock = _INDEX_LOCKS[key]

\* C39: every task that requests the guard of a key acquires it in the end,
\* provided that every holder releases it in the end (a waiting task that is
\* cancelled gives its request up); and no release leaves a task waiting for
\* a lock object that the registry does not hold any more.
EveryWaiterAcquires ==
    /\ [](\A c \in Callers :
            caller[c].pc = "waiting"
            => /\ caller[c].key \in DOMAIN _INDEX_LOCKS
               /\ _INDEX_LOCKS[caller[c].key] = caller[c].lock)
    /\ \A c \in Callers :
          (caller[c].pc = "waiting")
          ~> (Inside(c) \/ caller[c].status = "cancelled")

\* Two tasks asked for the guard of the key while the first task held it.
\* The first task and the task at the head of the queue have left the
\* section, and the task that queued last is inside, under the same lock
\* object.
EveryWaiterAcquires_Witness ==
    /\ Inside("c3")
    /\ \A c \in {"c1", "c2"} :
          /\ caller[c].pc = "done"
          /\ caller[c].status # "cancelled"
          /\ caller[c].key = caller["c3"].key
          /\ caller[c].lock = caller["c3"].lock

====
